---- MODULE Spec2Model ----
(***************************************************************************)
(* A model of rxn-reaction-preprocessing: the stable data splitter, the    *)
(* molecule standardizer with its annotation views, and the mixed reaction *)
(* filter.  Strings are sequences of one-character strings, so that the    *)
(* string operations of the code (split, replace, strip, the isotope       *)
(* regular expression) are computed and not assumed.                       *)
(***************************************************************************)
EXTENDS Integers, Sequences, FiniteSets, Bags, TLC

VARIABLES
    \* ---- stable_data_splitter.py ----
    hashSalt,       \* which function xxh64_intdigest is (fixed for a behaviour)
    hash_seed,      \* StableDataSplitter.hash_seed
    split_ratio,    \* StableDataSplitter.split_ratio
    shuffle_seed,   \* StableDataSplitter.shuffle_seed
    index_column,   \* StableDataSplitter.index_column
    input_rows,     \* the data rows of input_csv
    pos,            \* number of rows already pulled from input_iterator.rows
    train,          \* rows of train_csv
    valid,          \* rows of valid_csv
    test,           \* rows of test_csv
    splitPc,        \* position of split_file
    observed,       \* history: one grouping value and the split it once got
    \* ---- StableSplitter.get_split called on its own ----
    gs,
    \* ---- molecule_standardizer.py ----
    annotations,                 \* the list handed to MoleculeStandardizer
    discard_unannotated_metals,  \* MoleculeStandardizer.discard_unannotated_metals
    canonicalize,                \* MoleculeStandardizer.canonicalize
    stdCall,                     \* the last call of standardize and its outcome
    \* ---- standardize_in_equation_with_errors ----
    propagate_exceptions,
    reaction,                    \* the input equation <<reactants, agents, products>>
    eqRole,                      \* role group the outer loop is in (1..3)
    eqIdx,                       \* molecules of that group already examined
    standardized_reaction,
    invalid_smiles,
    rejected_smiles,
    missing_annotations,
    eqPc,                        \* idle, loop, returned or raised
    \* ---- mixed_reaction_filter.py ----
    filterConfig,                \* the thresholds of the MixedReactionFilter
    filterCall,                  \* the last call of an entry point and its outcome
    \* ---- reaction_standardizer.py ----
    rsCall,                      \* the last call of ReactionStandardizer.standardize
    \* ---- annotations/: the three views ----
    viewCall,                    \* the last query of a view and its outcome
    \* ---- preprocessor.py ----
    dedupCall,                   \* the last call of remove_duplicate_reactions
    csv_input,                   \* the rows pulled from the input file by preprocess
    csv_output,                  \* the rows preprocess has written
    error_counter,               \* the Counter returned by validate: a bag of reasons
    printed                      \* what print(error_counter) has shown, <<>> before it

splitVars == <<hashSalt, hash_seed, split_ratio, shuffle_seed, index_column,
               input_rows, pos, train, valid, test, splitPc, observed>>

stdConfig == <<annotations, discard_unannotated_metals, canonicalize>>

eqVars == <<propagate_exceptions, reaction, eqRole, eqIdx, standardized_reaction,
            invalid_smiles, rejected_smiles, missing_annotations, eqPc>>

filterVars == <<filterConfig, filterCall>>

stageVars == <<rsCall, viewCall, dedupCall, csv_input, csv_output, error_counter, printed>>

vars == <<splitVars, gs, stdConfig, stdCall, eqVars, filterVars, stageVars>>

-----------------------------------------------------------------------------
(* Generic helpers on sequences.                                           *)

Range(s) == {s[i] : i \in 1..Len(s)}

RECURSIVE Concat(_)
\* The concatenation of a sequence of sequences.
Concat(ss) == IF ss = <<>> THEN <<>> ELSE Head(ss) \o Concat(Tail(ss))

\* Number of positions of s holding x.
Count(s, x) == Cardinality({i \in 1..Len(s) : s[i] = x})

-----------------------------------------------------------------------------
(* Unsigned integers wider than the checker's: a number is its limbs, most *)
(* significant first, in base 2^16.  HASH_SIZE = 2**64 is <<1,0,0,0,0>>.  *)

LimbBase == 2^16

Zero == <<0, 0, 0, 0, 0>>

MaxHash == <<0, LimbBase - 1, LimbBase - 1, LimbBase - 1, LimbBase - 1>>

HASH_SIZE == <<1, 0, 0, 0, 0>>

RECURSIVE MulFrom(_, _, _, _)
MulFrom(x, k, i, carry) ==
    IF i = 0 THEN <<>>
    ELSE LET p == x[i] * k + carry
         IN  MulFrom(x, k, i - 1, p \div LimbBase) \o <<p % LimbBase>>

\* x * k for a small natural k.
MulSmall(x, k) == MulFrom(x, k, Len(x), 0)

RECURSIVE DivFrom(_, _, _, _)
DivFrom(x, d, i, rem) ==
    IF i > Len(x) THEN <<>>
    ELSE LET cur == rem * LimbBase + x[i]
         IN  <<cur \div d>> \o DivFrom(x, d, i + 1, cur % d)

\* x / d for a small positive d (exact for the dyadic ratios used here).
DivSmall(x, d) == DivFrom(x, d, 1, 0)

RECURSIVE LessFrom(_, _, _)
LessFrom(a, b, i) ==
    IF i > Len(a) THEN FALSE
    ELSE IF a[i] # b[i] THEN a[i] < b[i]
    ELSE LessFrom(a, b, i + 1)

\* a < b
Less(a, b) == LessFrom(a, b, 1)

RECURSIVE SuccFrom(_, _)
SuccFrom(x, i) ==
    IF i = 0 THEN x
    ELSE IF x[i] = LimbBase - 1 THEN SuccFrom([x EXCEPT ![i] = 0], i - 1)
    ELSE [x EXCEPT ![i] = x[i] + 1]

Succ(x) == SuccFrom(x, Len(x))

RECURSIVE PredFrom(_, _)
PredFrom(x, i) ==
    IF i = 0 THEN x
    ELSE IF x[i] = 0 THEN PredFrom([x EXCEPT ![i] = LimbBase - 1], i - 1)
    ELSE [x EXCEPT ![i] = x[i] - 1]

\* x - 1 (0 stays 0)
Pred(x) == IF x = Zero THEN Zero ELSE PredFrom(x, Len(x))

\* A ratio is num/den with den a power of two: for such doubles the products
\* and the sum of StableSplitter.__init__ are exact in floating point.
Ratio(n, d) == [num |-> n, den |-> d]

RatioAdd(a, b) == Ratio(a.num * b.den + b.num * a.den, a.den * b.den)

\* ratio * x
RatioTimes(r, x) == DivSmall(MulSmall(x, r.num), r.den)

-----------------------------------------------------------------------------
(* Strings of the data files.  S_xxx spells xxx.                           *)

S_C_D == <<"C", ">", ">", "D">>             \* "C>>D"
S_E_D == <<"E", ">", ">", "D">>             \* "E>>D"
S_D_E == <<"D", ">", ">", "E">>             \* "D>>E"
S_C_O_D == <<"C", ">", "O", ">", "D">>      \* "C>O>D"
S_C_D_E == <<"C", ">", ">", "D", ">", ">", "E">>   \* "C>>D>>E"

\* The reaction strings an input file may hold.
RxnSamples == {S_C_D, S_E_D, S_D_E, S_C_O_D, S_C_D_E}

\* The decimal spelling of a row number (the tests' "idx" column).
IdxString(i) == <<CASE i = 1 -> "1" [] i = 2 -> "2" [] i = 3 -> "3"
                    [] i = 4 -> "4" [] OTHER -> "9">>

\* Largest number of data rows of an input file.
MaxRows == 2

\* The i-th data row of a file whose reaction column holds rxns: the columns
\* are "rxn" and "idx".
Row(rxn, i) == [rxn |-> rxn, idx |-> IdxString(i)]

Columns == {"rxn", "idx"}

IndexColumns == {"products", "precursors", "rxn", "tbd"}

RECURSIVE SplitFrom(_, _, _)
\* str.split(">>"): the pieces between the non-overlapping occurrences of
\* ">>", scanned from the left; cur is the piece being read.
SplitFrom(s, cur, i) ==
    IF i > Len(s) THEN <<cur>>
    ELSE IF i < Len(s) /\ s[i] = ">" /\ s[i + 1] = ">"
         THEN <<cur>> \o SplitFrom(s, <<>>, i + 2)
         ELSE SplitFrom(s, Append(cur, s[i]), i + 1)

split_arrows(s) == SplitFrom(s, <<>>, 1)

\* _callable_for_value_to_hash raises RuntimeError for this index column.
IndexColumnUnknown(ic) == ic \notin {"products", "precursors"} /\ ic \notin Columns

\* The callable of _callable_for_value_to_hash applied to a row: the value
\* to hash, or the IndexError of split(">>")[1] on a string without ">>".
value_to_hash(ic, row) ==
    IF ic = "products"
    THEN LET parts == split_arrows(row.rxn)
         IN  IF Len(parts) < 2 THEN [ok |-> FALSE, value |-> <<>>]
             ELSE [ok |-> TRUE, value |-> parts[2]]
    ELSE IF ic = "precursors"
    THEN [ok |-> TRUE, value |-> split_arrows(row.rxn)[1]]
    ELSE [ok |-> TRUE, value |-> IF ic = "rxn" THEN row.rxn ELSE row.idx]

-----------------------------------------------------------------------------
(* StableSplitter.                                                          *)

\* The split ratios tried, each exactly representable as a double.
RatioSamples == <<Ratio(1, 4), Ratio(1, 16), Ratio(1, 2), Ratio(0, 1)>>

HashSeeds == {0, 123}

ShuffleSeeds == {42, 123}

\* StableSplitter.__init__
StableSplitter(ratio, seed) ==
    [seed |-> seed, test_ratio |-> ratio, valid_ratio |-> ratio,
     test_threshold |-> RatioTimes(ratio, HASH_SIZE),
     validation_threshold |-> RatioTimes(RatioAdd(ratio, ratio), HASH_SIZE)]

RECURSIVE BoundaryFrom(_)
\* The hash values next to the thresholds of the ratios tried.
BoundaryFrom(rs) ==
    IF rs = <<>> THEN <<>>
    ELSE LET sp == StableSplitter(Head(rs), 0)
             T == sp.test_threshold
             V == sp.validation_threshold
         IN  SelectSeq(<<Pred(T), T, Succ(T), Pred(V), V, Succ(V)>>,
                       LAMBDA h : Less(h, HASH_SIZE))
             \o BoundaryFrom(Tail(rs))

\* The 64-bit values a hash takes in the model.
HashPoints == <<Zero, MaxHash>> \o BoundaryFrom(RatioSamples)

CharCode(c) ==
    CASE c = "C" -> 1 [] c = "D" -> 2 [] c = "E" -> 3 [] c = "O" -> 4
      [] c = ">" -> 5 [] c = "." -> 6 [] c = "1" -> 7 [] c = "2" -> 8
      [] OTHER -> 9

RECURSIVE Mix(_, _)
Mix(s, acc) ==
    IF s = <<>> THEN acc
    ELSE Mix(Tail(s), (acc * 7 + CharCode(Head(s))) % Len(HashPoints))

\* xxh64_intdigest(value, seed=seed): some fixed function of the string and
\* the seed into the 64-bit integers; hashSalt says which one.
xxh64_intdigest(value, seed) ==
    HashPoints[((Mix(value, 0) + seed + hashSalt) % Len(HashPoints)) + 1]

classify_TestInclusive(sp, h) ==
    IF ~Less(sp.test_threshold, h) THEN "TEST"
    ELSE IF Less(h, sp.validation_threshold) THEN "VALIDATION"
    ELSE "TRAIN"

\* The comparisons of StableSplitter.get_split on the hash h.
classify(sp, h) ==
    IF Less(h, sp.test_threshold) THEN "TEST"
    ELSE IF Less(h, sp.validation_threshold) THEN "VALIDATION"
    ELSE "TRAIN"

\* StableSplitter.get_split
get_split(sp, split_value) == classify(sp, xxh64_intdigest(split_value, sp.seed))

\* ReactionEquation([], [], [])
EmptyEquation == <<<<>>, <<>>, <<>>>>

\* stdCall before any call of standardize.
NoStdCall == [smiles |-> <<>>, outcome |-> "none", value |-> <<>>, lookups |-> <<>>]

\* gs before any call of get_split.
NoCall == [value |-> <<>>, h |-> Zero, split |-> "none"]

-----------------------------------------------------------------------------
(* StableDataSplitter.split_file, one row at a time.                        *)

NoObservation == [value |-> <<"-">>, split |-> "none", column |-> "none"]

RECURSIVE RotateLeft(_, _)
RotateLeft(s, k) == IF k = 0 \/ s = <<>> THEN s ELSE RotateLeft(Tail(s) \o <<Head(s)>>, k - 1)

\* A shuffle that writes the first row twice and loses the last one.
stable_shuffle_Resample(rows, seed) ==
    IF rows = <<>> THEN rows ELSE <<Head(rows)>> \o SubSeq(rows, 1, Len(rows) - 1)

\* rxn.utilities.files.stable_shuffle(train_csv, train_csv, seed, is_csv=True):
\* the data rows in an order fixed by the seed and the number of rows.
stable_shuffle(rows, seed) ==
    IF rows = <<>> THEN rows ELSE RotateLeft(rows, (seed + 1) % Len(rows))

\* The splitter _split_iterator builds (lines 136-139).
splitter == StableSplitter(split_ratio, hash_seed)

row_split_ValidationCapped(v) ==
    LET split == get_split(splitter, v)
    IN  IF split = "VALIDATION" /\ Len(valid) >= 1 THEN "TRAIN" ELSE split

\* The split _split_iterator gives the row whose value to hash is v
\* (line 143).
row_split(v) == get_split(splitter, v)

writer_rows_NoElif(out, name, split, row) ==
    IF split = name \/ (name = "VALIDATION" /\ split = "TEST")
    THEN Append(out, row) ELSE out

\* The dispatch of lines 144-149 seen from the writer of split `name`, whose
\* file holds the rows out: the row is written to it iff it got that split.
writer_rows(out, name, split, row) == IF split = name THEN Append(out, row) ELSE out

\* split_file up to the first row: the output files are opened (emptied), the
\* header is written, and _split_iterator resolves the index column.
SplitOpen(ic) ==
    /\ splitPc \in {"idle", "done", "error"}
    /\ input_rows' = <<>>
    /\ index_column' = ic
    /\ pos' = 0
    /\ train' = <<>>
    /\ valid' = <<>>
    /\ test' = <<>>
    /\ splitPc' = IF IndexColumnUnknown(ic) THEN "error" ELSE "rows"
    /\ UNCHANGED <<hashSalt, hash_seed, split_ratio, shuffle_seed, observed, gs,
                   stdConfig, filterVars, stageVars, stdCall, eqVars>>

\* One iteration of the loop of _split_iterator: the iterator yields the next
\* row of the input file, whose reaction column holds rxn.
SplitRow(rxn) ==
    /\ splitPc = "rows"
    /\ pos < MaxRows
    /\ LET row == Row(rxn, pos + 1)
           v == value_to_hash(index_column, row)
           split == row_split(v.value)
       IN  /\ input_rows' = Append(input_rows, row)
           /\ IF ~v.ok
              THEN /\ splitPc' = "error"
                   /\ UNCHANGED <<pos, train, valid, test, observed>>
              ELSE /\ pos' = pos + 1
                   /\ train' = writer_rows(train, "TRAIN", split, row)
                   /\ valid' = writer_rows(valid, "VALIDATION", split, row)
                   /\ test' = writer_rows(test, "TEST", split, row)
                   /\ splitPc' = "rows"
                   /\ \/ observed' = observed
                      \/ /\ observed = NoObservation
                         /\ observed' = [value |-> v.value, split |-> split,
                                          column |-> index_column]
    /\ UNCHANGED <<hashSalt, hash_seed, split_ratio, shuffle_seed, index_column, gs,
                   stdConfig, filterVars, stageVars, stdCall, eqVars>>

\* The input is exhausted: the files are closed and the train file shuffled.
SplitFinish ==
    /\ splitPc = "rows"
    /\ train' = stable_shuffle(train, shuffle_seed)
    /\ splitPc' = "done"
    /\ UNCHANGED <<hashSalt, hash_seed, split_ratio, shuffle_seed, index_column,
                   input_rows, pos, valid, test, observed, gs,
                   stdConfig, filterVars, stageVars, stdCall, eqVars>>

\* No call of split_file or get_split has been made.
SplitterIdle ==
    /\ index_column = "tbd"
    /\ input_rows = <<>>
    /\ pos = 0
    /\ train = <<>>
    /\ valid = <<>>
    /\ test = <<>>
    /\ splitPc = "idle"
    /\ observed = NoObservation
    /\ gs = NoCall

\* No call of standardize or standardize_in_equation_with_errors has been made.
StandardizerIdle ==
    /\ stdCall = NoStdCall
    /\ propagate_exceptions = FALSE
    /\ reaction = EmptyEquation
    /\ eqRole = 1
    /\ eqIdx = 0
    /\ standardized_reaction = EmptyEquation
    /\ invalid_smiles = <<>>
    /\ rejected_smiles = <<>>
    /\ missing_annotations = <<>>
    /\ eqPc = "idle"

\* MixedReactionFilter.__init__: a filter as a record of its thresholds.
MixedReactionFilter(max_reactants, max_agents, max_products, min_reactants, min_agents, min_products, max_reactants_tokens, max_agents_tokens, max_products_tokens, max_absolute_formal_charge) ==
    [max_reactants |-> max_reactants, max_agents |-> max_agents,
     max_products |-> max_products, min_reactants |-> min_reactants,
     min_agents |-> min_agents, min_products |-> min_products,
     max_reactants_tokens |-> max_reactants_tokens,
     max_agents_tokens |-> max_agents_tokens,
     max_products_tokens |-> max_products_tokens,
     max_absolute_formal_charge |-> max_absolute_formal_charge]

NoFilterCall ==
    [fn |-> "none", reaction |-> EmptyEquation, valid |-> TRUE, reasons |-> <<>>,
     evaluated |-> <<>>, tokenized |-> <<>>, raised |-> FALSE,
     carried |-> EmptyEquation]

NoReactionCall == [nth |-> 0, given |-> EmptyEquation, reaction |-> EmptyEquation,
                   returned |-> EmptyEquation]

\* viewCall before any query of an annotation view.
NoViewCall == [fn |-> "none", smiles |-> <<>>, raised |-> "none", value |-> <<>>]

\* dedupCall before any call of remove_duplicate_reactions.
NoDedupCall == [nth |-> 0, given |-> <<>>, returned |-> <<>>]

\* The behaviour uses none of the later stages.
StagesUnused ==
    /\ rsCall = NoReactionCall
    /\ viewCall = NoViewCall
    /\ dedupCall = NoDedupCall
    /\ csv_input = <<>>
    /\ csv_output = <<>>
    /\ error_counter = EmptyBag
    /\ printed = <<>>

\* The behaviour uses no MixedReactionFilter (one with the default
\* thresholds exists, uncalled).
FilterUnused ==
    /\ filterConfig = MixedReactionFilter(10, 0, 1, 2, 0, 1, 300, 0, 200, 2)
    /\ filterCall = NoFilterCall

\* The behaviour uses no MoleculeStandardizer.
StandardizerUnused ==
    /\ annotations = <<>>
    /\ discard_unannotated_metals = FALSE
    /\ canonicalize = TRUE
    /\ StandardizerIdle

\* The hash functions tried under SpecSplit.
SplitSalts == {0, 3, 6, 9}

InitSplit ==
    /\ hashSalt \in SplitSalts
    /\ hash_seed \in HashSeeds
    /\ split_ratio \in {RatioSamples[1], RatioSamples[2]}
    /\ shuffle_seed \in ShuffleSeeds
    /\ SplitterIdle
    /\ StandardizerUnused
    /\ FilterUnused
    /\ StagesUnused

NextSplit ==
    \/ \E ic \in IndexColumns : SplitOpen(ic)
    \/ \E rxn \in RxnSamples : SplitRow(rxn)
    \/ SplitFinish

SpecSplit == InitSplit /\ [][NextSplit]_vars

-----------------------------------------------------------------------------
(* StableSplitter.get_split called on its own, for every hash function of  *)
(* the family and every ratio tried.                                        *)

\* The values handed to get_split.
SplitValues == {<<"D">>, <<"E">>, S_C_D}

GetSplitCall(v) ==
    /\ gs' = [value |-> v,
              h |-> xxh64_intdigest(v, hash_seed),
              split |-> get_split(StableSplitter(split_ratio, hash_seed), v)]
    /\ UNCHANGED <<splitVars, stdConfig, filterVars, stageVars, stdCall, eqVars>>

InitGetSplit ==
    /\ hashSalt \in 0..(Len(HashPoints) - 1)
    /\ hash_seed \in HashSeeds
    /\ split_ratio \in Range(RatioSamples)
    /\ shuffle_seed = 42
    /\ SplitterIdle
    /\ StandardizerUnused
    /\ FilterUnused
    /\ StagesUnused

NextGetSplit == \E v \in SplitValues : GetSplitCall(v)

SpecGetSplit == InitGetSplit /\ [][NextGetSplit]_vars

-----------------------------------------------------------------------------
(* Claims on the stable splitter.                                           *)

\* The rows written so far, and the splits whose file holds a row.
WrittenRows == Range(train) \cup Range(valid) \cup Range(test)

SplitsOf(row) ==
    {n \in {"TRAIN", "VALIDATION", "TEST"} :
        row \in Range(IF n = "TRAIN" THEN train ELSE IF n = "VALIDATION" THEN valid ELSE test)}

GroupingValue(row) == value_to_hash(index_column, row).value

\* C1: for a fixed hash seed and split ratio, rows with equal grouping values
\* land in the same split: any two rows of the file being split, and any row
\* of it and the row observed earlier (possibly in another call of split_file,
\* on another file, with another index column), whatever their positions.
C1_EqualValuesSameSplit ==
    /\ \A r1 \in WrittenRows : \A r2 \in WrittenRows :
          GroupingValue(r1) = GroupingValue(r2) => SplitsOf(r1) = SplitsOf(r2)
    /\ observed # NoObservation =>
          \A r \in WrittenRows :
             GroupingValue(r) = observed.value => SplitsOf(r) = {observed.split}

\* C1's case: a finished file holding two different rows with one grouping
\* value, which is also the value observed in an earlier call of split_file
\* (made with another index column).
C1_Witness ==
    /\ splitPc = "done"
    /\ observed # NoObservation
    /\ observed.column # index_column
    /\ \E r1 \in WrittenRows : \E r2 \in WrittenRows :
          /\ r1.rxn # r2.rxn
          /\ GroupingValue(r1) = observed.value
          /\ GroupingValue(r2) = observed.value

\* C2: each input row pulled from the file is in exactly one of the three
\* outputs, exactly once, the three row counts sum to the number of rows
\* pulled, and when split_file returns every input row has been pulled.
C2_EachRowInExactlyOneOutput ==
    /\ Len(train) + Len(valid) + Len(test) = pos
    /\ \A i \in 1..pos : Count(train \o valid \o test, input_rows[i]) = 1
    /\ WrittenRows \subseteq Range(input_rows)
    /\ splitPc = "done" => pos = Len(input_rows)

\* C2's case: split_file has returned on a file of MaxRows rows that went to
\* at least two different outputs.
C2_Witness ==
    /\ splitPc = "done"
    /\ Len(input_rows) = MaxRows
    /\ Cardinality({n \in {"TRAIN", "VALIDATION", "TEST"} :
                       \E r \in WrittenRows : n \in SplitsOf(r)}) >= 2

\* C3: get_split returns TEST iff h < split_ratio * 2^64, VALIDATION iff
\* split_ratio * 2^64 <= h < 2 * split_ratio * 2^64, TRAIN otherwise; so a
\* hash equal to the test threshold (when below the validation threshold) is
\* VALIDATION and a hash equal to the validation threshold is TRAIN.
C3_GetSplitThresholds ==
    gs # NoCall =>
       LET T == RatioTimes(split_ratio, HASH_SIZE)
           V == RatioTimes(Ratio(2 * split_ratio.num, split_ratio.den), HASH_SIZE)
       IN  /\ gs.h = xxh64_intdigest(gs.value, hash_seed)
           /\ gs.split = "TEST" <=> Less(gs.h, T)
           /\ gs.split = "VALIDATION" <=> (~Less(gs.h, T) /\ Less(gs.h, V))
           /\ gs.split = "TRAIN" <=> ~Less(gs.h, V)
           /\ (gs.h = T /\ Less(T, V)) => gs.split = "VALIDATION"
           /\ gs.h = V => gs.split = "TRAIN"

\* C3's case: get_split was called on a value whose hash is exactly the test
\* threshold of a positive ratio.
C3_Witness ==
    /\ gs # NoCall
    /\ split_ratio.num > 0
    /\ gs.h = RatioTimes(split_ratio, HASH_SIZE)
    /\ gs.split = "VALIDATION"

-----------------------------------------------------------------------------
(* Molecule strings, the toolkit, and the annotation views.                 *)

M_C == <<"C">>
M_CCC == <<"C", "C", "C">>
M_CCCC == <<"C", "C", "C", "C">>
M_CC_C == <<"C", "C", "(", "C", ")">>               \* "CC(C)", a spelling of CCC
M_13CH4 == <<"[", "1", "3", "C", "H", "4", "]">>    \* "[13CH4]"
M_Pd == <<"[", "P", "d", "]">>                      \* "[Pd]"
M_J == <<"[", "J", "]">>                            \* "[J]", not a molecule
M_CtO == <<"C", "~", "O">>                          \* "C~O"

\* The strings handed to standardize.
MolSamples ==
    {M_CCC, M_CC_C, M_13CH4, M_Pd, M_J, M_CtO, M_CCCC,
     <<"C", "C", ".", "C", "C">>, M_J \o <<"~", "C">>}

Digits == {"0", "1", "2", "3", "4", "5", "6", "7", "8", "9"}

Letters == {"C", "H", "J", "N", "O", "P", "d"}

Whitespace == {" ", "\t", "\n"}

RECURSIVE Strip(_)
\* str.strip()
Strip(s) ==
    IF s = <<>> THEN s
    ELSE IF Head(s) \in Whitespace THEN Strip(Tail(s))
    ELSE IF s[Len(s)] \in Whitespace THEN Strip(SubSeq(s, 1, Len(s) - 1))
    ELSE s

RECURSIVE DigitRunEnd(_, _)
\* Last position of the run of digits of s that starts at i.
DigitRunEnd(s, i) ==
    IF i < Len(s) /\ s[i + 1] \in Digits THEN DigitRunEnd(s, i + 1) ELSE i

RECURSIVE IsotopeSub(_, _)
\* _ISOTOPE_REMOVAL_REGEX.sub("", s) from position i: a run of digits right
\* after "[" and right before a letter is dropped.
IsotopeSub(s, i) ==
    IF i > Len(s) THEN <<>>
    ELSE IF i > 1 /\ s[i - 1] = "[" /\ s[i] \in Digits
              /\ DigitRunEnd(s, i) < Len(s) /\ s[DigitRunEnd(s, i) + 1] \in Letters
         THEN IsotopeSub(s, DigitRunEnd(s, i) + 1)
         ELSE <<s[i]>> \o IsotopeSub(s, i + 1)

\* cleaner.remove_isotope_information
remove_isotope_information(rxn) == IsotopeSub(Strip(rxn), 1)

\* rxn.chemutils canonicalize_smiles: the canonical spelling, or InvalidSmiles
\* (ok = FALSE), for the strings of the model.
canonicalize_smiles(s) ==
    CASE s \in {M_CCC, M_CC_C} -> [ok |-> TRUE, value |-> M_CCC]
      [] s \in {M_C, <<"[", "C", "H", "4", "]">>} -> [ok |-> TRUE, value |-> M_C]
      [] s \in {<<"C", "C">>, M_CCCC, M_Pd, M_13CH4, <<"C", "C", ".", "C", "C">>} -> [ok |-> TRUE, value |-> s]
      [] OTHER -> [ok |-> FALSE, value |-> <<>>]

RECURSIVE SplitDotsFrom(_, _, _)
\* str.split(".")
SplitDotsFrom(s, cur, i) ==
    IF i > Len(s) THEN <<cur>>
    ELSE IF s[i] = "." THEN <<cur>> \o SplitDotsFrom(s, <<>>, i + 1)
    ELSE SplitDotsFrom(s, Append(cur, s[i]), i + 1)

\* The extended transition metals among the elements of the model.
elements_requiring_annotation == {"Pd"}

\* The element symbols spelled in the string, whether it parses or not.
elements_in_smiles_Total(s) ==
    [ok |-> TRUE,
     value |-> {"Pd" : i \in {j \in 1..(Len(s) - 1) : s[j] = "P" /\ s[j + 1] = "d"}}
               \cup {"C" : i \in {j \in 1..Len(s) : s[j] = "C"}}]

\* AnnotationCriterion.elements_in_smiles, for the elements of the model.
\* atom_type_counter parses the string and raises InvalidSmiles (ok = FALSE)
\* when it does not parse; a string parses when each of its fragments does.
\* Otherwise the result is the element symbols spelled in the string.
elements_in_smiles(s) ==
    LET fragments ==
            SplitDotsFrom([i \in 1..Len(s) |-> IF s[i] = "~" THEN "." ELSE s[i]], <<>>, 1)
        ok == \A i \in 1..Len(fragments) : canonicalize_smiles(fragments[i]).ok
    IN  [ok |-> ok,
         value |-> IF ~ok THEN {}
                   ELSE {"Pd" : i \in {j \in 1..(Len(s) - 1) : s[j] = "P" /\ s[j + 1] = "d"}}
                        \cup {"C" : i \in {j \in 1..Len(s) : s[j] = "C"}}
                        \cup {"O" : i \in {j \in 1..Len(s) : s[j] = "O"}}]

\* AnnotationCriterion.requires_annotation: a boolean, or InvalidSmiles
\* (ok = FALSE) passed on from elements_in_smiles.
requires_annotation(s) ==
    [ok |-> elements_in_smiles(s).ok,
     value |-> elements_in_smiles(s).value \cap elements_requiring_annotation # {}]

\* A MoleculeAnnotation; has_updated is "updated_smiles is not None".
Annotation(o, u, has, d) ==
    [original_smiles |-> o, updated_smiles |-> u, has_updated |-> has, decision |-> d]

\* The annotation lists a MoleculeStandardizer is built from.
AnnotationLists ==
    { <<>>,
      <<Annotation(M_CCC, <<>>, FALSE, "REJECT"), Annotation(M_Pd, <<>>, FALSE, "REJECT")>>,
      <<Annotation(M_Pd, <<>>, FALSE, "ACCEPT"), Annotation(M_CCCC, <<"C", "C", ".", "C", "C">>, TRUE, "ACCEPT"),
        Annotation(M_CCC, <<"C", "C", "~", "C">>, TRUE, "ACCEPT")>>,
      <<Annotation(M_CC_C, <<>>, FALSE, "REJECT")>>,
      <<Annotation(M_CCCC, <<"C", "C", "~", "C", ".", "C", "C">>, TRUE, "ACCEPT")>>,
      \* a REJECT and an ACCEPT with an updated value for one original, in the
      \* two orders, the original spelled with "~" once, and for an original
      \* that is not a canonical string
      <<Annotation(<<"C", "C", "~", "C", "C">>, <<>>, FALSE, "REJECT"),
        Annotation(<<"C", "C", ".", "C", "C">>, M_CCCC, TRUE, "ACCEPT")>>,
      <<Annotation(M_CCCC, <<"C", "C", ".", "C", "C">>, TRUE, "ACCEPT"),
        Annotation(M_CCCC, <<>>, FALSE, "REJECT")>>,
      <<Annotation(M_CC_C, <<>>, FALSE, "REJECT"),
        Annotation(M_CC_C, M_CCCC, TRUE, "ACCEPT")>>,
      \* a replacement by a rejected molecule and by the original of another
      \* replacement
      <<Annotation(M_CCCC, <<"C", "C", "C", ".", "C", "C">>, TRUE, "ACCEPT"),
        Annotation(M_CCC, <<>>, FALSE, "REJECT"),
        Annotation(<<"C", "C">>, M_C, TRUE, "ACCEPT")>> }

\* str.replace("~", ".")
ReplaceTildes(s) == [i \in 1..Len(s) |-> IF s[i] = "~" THEN "." ELSE s[i]]

\* rxn.chemutils multicomponent_smiles_to_list(smiles, "~"): split on the
\* dots, drop the empty pieces, turn each piece's tildes into dots.
multicomponent_smiles_to_list(smiles) ==
    LET pieces == SelectSeq(SplitDotsFrom(smiles, <<>>, 1), LAMBDA m : m # <<>>)
    IN  [i \in 1..Len(pieces) |-> ReplaceTildes(pieces[i])]

\* MoleculeAnnotation.original_without_fragment_bond
original_without_fragment_bond(ann) == ReplaceTildes(ann.original_smiles)

\* The updated value split on the dots, the tildes left in the pieces.
updated_without_fragment_bond_KeepTildes(ann) ==
    SelectSeq(SplitDotsFrom(ann.updated_smiles, <<>>, 1), LAMBDA m : m # <<>>)

\* MoleculeAnnotation.updated_without_fragment_bond
updated_without_fragment_bond(ann) == multicomponent_smiles_to_list(ann.updated_smiles)

\* The rejected molecules as the annotations spell them.
rejected_molecules_AsWritten ==
    {a.original_smiles : a \in {x \in Range(annotations) : x.decision = "REJECT"}}

\* RejectedMoleculesFilter.from_molecule_annotations: rejected_molecules
rejected_molecules ==
    {original_without_fragment_bond(a) : a \in {x \in Range(annotations) : x.decision = "REJECT"}}

\* The lookup made on the dot-normalized query.
is_valid_molecule_smiles_NormalizedQuery(smiles) ==
    ReplaceTildes(smiles) \notin rejected_molecules

\* RejectedMoleculesFilter.is_valid_molecule_smiles
is_valid_molecule_smiles(smiles) == smiles \notin rejected_molecules

\* The annotated molecules with the first molecule of every updated value.
annotated_molecules_AnyUpdated ==
    {original_without_fragment_bond(a) : a \in Range(annotations)}
    \cup {updated_without_fragment_bond(a)[1] :
            a \in {x \in Range(annotations) :
                      x.has_updated /\ Len(updated_without_fragment_bond(x)) >= 1}}

\* MissingAnnotationDetector.from_molecule_annotations: annotated_molecules
annotated_molecules ==
    {original_without_fragment_bond(a) : a \in Range(annotations)}
    \cup {updated_without_fragment_bond(a)[1] :
            a \in {x \in Range(annotations) :
                      x.has_updated /\ Len(updated_without_fragment_bond(x)) = 1}}

\* MissingAnnotationDetector.molecule_needs_annotation
molecule_needs_annotation(smiles) ==
    [ok |-> requires_annotation(smiles).ok,
     value |-> IF ~requires_annotation(smiles).value THEN FALSE
               ELSE smiles \notin annotated_molecules]

\* The rules taken from every annotation that has an updated value, whatever
\* its decision.
ReplacementRules_AnyDecision(smiles) ==
    {i \in 1..Len(annotations) :
        /\ annotations[i].has_updated
        /\ original_without_fragment_bond(annotations[i]) = smiles}

\* MoleculeReplacer.from_molecule_annotations: the positions of the
\* annotations that give a replacement rule for smiles.
ReplacementRules(smiles) ==
    {i \in 1..Len(annotations) :
        /\ annotations[i].decision = "ACCEPT"
        /\ annotations[i].has_updated
        /\ original_without_fragment_bond(annotations[i]) = smiles}

\* The replacement with the rules applied once more to each molecule of the
\* stored value.
replace_molecule_smiles_Repeated(smiles) ==
    LET once(m) ==
            IF ReplacementRules(m) = {} THEN <<m>>
            ELSE LET last == CHOOSE i \in ReplacementRules(m) :
                                \A j \in ReplacementRules(m) : j <= i
                 IN  updated_without_fragment_bond(annotations[last])
        first == once(smiles)
    IN  IF ReplacementRules(smiles) = {} THEN first
        ELSE Concat([i \in 1..Len(first) |-> once(first[i])])

\* MoleculeReplacer.replace_molecule_smiles: in the dictionary the last rule
\* for a key wins.
replace_molecule_smiles(smiles) ==
    IF ReplacementRules(smiles) = {} THEN <<smiles>>
    ELSE LET last == CHOOSE i \in ReplacementRules(smiles) :
                        \A j \in ReplacementRules(smiles) : j <= i
         IN  updated_without_fragment_bond(annotations[last])

-----------------------------------------------------------------------------
(* MoleculeStandardizer.standardize.  Its result is a record: the outcome   *)
(* ("ok" or the exception raised), the list returned, and the annotation    *)
(* lookups made, in order, each with the string looked up.                  *)

Lookup(view, key) == [view |-> view, key |-> key]

Outcome(smiles, outcome, value, lookups) ==
    [smiles |-> smiles, outcome |-> outcome, value |-> value, lookups |-> lookups]

\* The checks with a replacement rule applied before the rejection check.
checks_and_replacement_ReplacementFirst(smiles, checked) ==
    IF ReplacementRules(checked) # {}
    THEN Outcome(smiles, "ok", replace_molecule_smiles(checked),
                 <<Lookup("replacement", checked)>>)
    ELSE IF ~is_valid_molecule_smiles(checked)
    THEN Outcome(smiles, "RejectedMolecule", <<>>, <<Lookup("rejection", checked)>>)
    ELSE IF discard_unannotated_metals /\ ~molecule_needs_annotation(checked).ok
    THEN Outcome(smiles, "InvalidSmiles", <<>>,
                 <<Lookup("rejection", checked), Lookup("missing", checked)>>)
    ELSE IF discard_unannotated_metals /\ molecule_needs_annotation(checked).value
    THEN Outcome(smiles, "MissingAnnotation", <<>>,
                 <<Lookup("rejection", checked), Lookup("missing", checked)>>)
    ELSE Outcome(smiles, "ok", <<checked>>,
                 <<Lookup("rejection", checked)>>
                 \o (IF discard_unannotated_metals
                     THEN <<Lookup("missing", checked)>> ELSE <<>>)
                 \o <<Lookup("replacement", checked)>>)

\* The checks with the missing-annotation check made first.
checks_and_replacement_MissingFirst(smiles, checked) ==
    IF discard_unannotated_metals /\ molecule_needs_annotation(checked).value
    THEN Outcome(smiles, "MissingAnnotation", <<>>, <<Lookup("missing", checked)>>)
    ELSE IF ~is_valid_molecule_smiles(checked)
    THEN Outcome(smiles, "RejectedMolecule", <<>>,
                 (IF discard_unannotated_metals
                  THEN <<Lookup("missing", checked)>> ELSE <<>>)
                 \o <<Lookup("rejection", checked)>>)
    ELSE Outcome(smiles, "ok", replace_molecule_smiles(checked),
                 (IF discard_unannotated_metals
                  THEN <<Lookup("missing", checked)>> ELSE <<>>)
                 \o <<Lookup("rejection", checked), Lookup("replacement", checked)>>)

\* Lines 118-128 on the string the checks are made on.
checks_and_replacement(smiles, checked) ==
    IF ~is_valid_molecule_smiles(checked)
    THEN Outcome(smiles, "RejectedMolecule", <<>>, <<Lookup("rejection", checked)>>)
    ELSE IF discard_unannotated_metals /\ ~molecule_needs_annotation(checked).ok
    THEN Outcome(smiles, "InvalidSmiles", <<>>,
                 <<Lookup("rejection", checked), Lookup("missing", checked)>>)
    ELSE IF discard_unannotated_metals /\ molecule_needs_annotation(checked).value
    THEN Outcome(smiles, "MissingAnnotation", <<>>,
                 <<Lookup("rejection", checked), Lookup("missing", checked)>>)
    ELSE Outcome(smiles, "ok", replace_molecule_smiles(checked),
                 <<Lookup("rejection", checked)>>
                 \o (IF discard_unannotated_metals
                     THEN <<Lookup("missing", checked)>> ELSE <<>>)
                 \o <<Lookup("replacement", checked)>>)

\* standardize with the string parsed before the "~" check.
standardize_ParseFirst(smiles) ==
    LET stripped == remove_isotope_information(smiles)
        canonical == canonicalize_smiles(stripped)
    IN  IF ~canonical.ok THEN Outcome(smiles, "InvalidSmiles", <<>>, <<>>)
        ELSE IF "~" \in Range(smiles) THEN Outcome(smiles, "ValueError", <<>>, <<>>)
        ELSE checks_and_replacement(
                 smiles, IF canonicalize THEN canonical.value ELSE stripped)

\* standardize with the checks made on the isotope-stripped input spelling.
standardize_ChecksOnInput(smiles) ==
    IF "~" \in Range(smiles) THEN Outcome(smiles, "ValueError", <<>>, <<>>)
    ELSE LET stripped == remove_isotope_information(smiles)
             canonical == canonicalize_smiles(stripped)
         IN  IF ~canonical.ok THEN Outcome(smiles, "InvalidSmiles", <<>>, <<>>)
             ELSE checks_and_replacement(smiles, stripped)

\* MoleculeStandardizer.standardize
standardize(smiles) ==
    IF "~" \in Range(smiles) THEN Outcome(smiles, "ValueError", <<>>, <<>>)
    ELSE LET stripped == remove_isotope_information(smiles)
             canonical == canonicalize_smiles(stripped)
         IN  IF ~canonical.ok THEN Outcome(smiles, "InvalidSmiles", <<>>, <<>>)
             ELSE checks_and_replacement(
                      smiles, IF canonicalize THEN canonical.value ELSE stripped)

\* A call of standardize (or of the standardizer object) on one string.
StandardizeCall(smiles) ==
    /\ stdCall' = standardize(smiles)
    /\ UNCHANGED <<splitVars, gs, stdConfig, filterVars, stageVars, eqVars>>

InitStandardize ==
    /\ hashSalt = 0
    /\ hash_seed = 0
    /\ split_ratio = RatioSamples[1]
    /\ shuffle_seed = 42
    /\ SplitterIdle
    /\ annotations \in AnnotationLists
    /\ discard_unannotated_metals \in BOOLEAN
    /\ canonicalize \in BOOLEAN
    /\ StandardizerIdle
    /\ FilterUnused
    /\ StagesUnused

NextStandardize == \E smiles \in MolSamples : StandardizeCall(smiles)

SpecStandardize == InitStandardize /\ [][NextStandardize]_vars

-----------------------------------------------------------------------------
(* MoleculeStandardizer.standardize_in_equation_with_errors, one molecule   *)
(* of the equation per step.  An equation is <<reactants, agents, products>>.*)

\* Largest number of molecules in an equation.
MaxMols == 2

\* The molecule strings equations are made of.
EquationMolSamples == {M_Pd, M_J, M_CtO, M_CCCC}

\* The except clauses of lines 181-198 with the catch-all misfiling into the
\* rejected list.
except_clause_CatchAllRejected(outcome) ==
    CASE outcome = "InvalidSmiles" -> "invalid_smiles"
      [] outcome = "RejectedMolecule" -> "rejected_smiles"
      [] outcome = "MissingAnnotation" -> "missing_annotations"
      [] OTHER -> "rejected_smiles"

\* The except clauses of lines 181-198: the list a failing molecule goes to.
except_clause(outcome) ==
    CASE outcome = "InvalidSmiles" -> "invalid_smiles"
      [] outcome = "RejectedMolecule" -> "rejected_smiles"
      [] outcome = "MissingAnnotation" -> "missing_annotations"
      [] OTHER -> "invalid_smiles"

\* Lines 201-202 with only the invalid list looked at.
returned_reaction_InvalidOnly(std, invalid, rejected, missing) ==
    IF invalid # <<>> THEN EmptyEquation ELSE std

\* Lines 201-202: any failure replaces the equation by the empty one.
returned_reaction(std, invalid, rejected, missing) ==
    IF invalid # <<>> \/ rejected # <<>> \/ missing # <<>> THEN EmptyEquation ELSE std

\* Lines 170-176: the call, with its arguments.
EqStart(rxn, propagate) ==
    /\ eqPc = "idle"
    /\ reaction' = rxn
    /\ propagate_exceptions' = propagate
    /\ missing_annotations' = <<>>
    /\ invalid_smiles' = <<>>
    /\ rejected_smiles' = <<>>
    /\ standardized_reaction' = EmptyEquation
    /\ eqRole' = 1
    /\ eqIdx' = 0
    /\ eqPc' = "loop"
    /\ UNCHANGED <<splitVars, gs, stdConfig, filterVars, stageVars, stdCall>>

\* Lines 178-198: one iteration of the inner loop.
EqMolecule ==
    /\ eqPc = "loop"
    /\ eqIdx < Len(reaction[eqRole])
    /\ LET smiles == reaction[eqRole][eqIdx + 1]
           result == standardize(smiles)
           failed(list) == result.outcome # "ok" /\ ~propagate_exceptions
                           /\ except_clause(result.outcome) = list
       IN  /\ standardized_reaction' =
                  IF result.outcome = "ok"
                  THEN [standardized_reaction EXCEPT ![eqRole] = @ \o result.value]
                  ELSE standardized_reaction
           /\ eqPc' = IF result.outcome # "ok" /\ propagate_exceptions
                      THEN "raised" ELSE "loop"
           /\ invalid_smiles' = IF failed("invalid_smiles")
                                THEN Append(invalid_smiles, smiles) ELSE invalid_smiles
           /\ rejected_smiles' = IF failed("rejected_smiles")
                                 THEN Append(rejected_smiles, smiles) ELSE rejected_smiles
           /\ missing_annotations' = IF failed("missing_annotations")
                                     THEN Append(missing_annotations, smiles)
                                     ELSE missing_annotations
    /\ eqIdx' = eqIdx + 1
    /\ UNCHANGED <<splitVars, gs, stdConfig, filterVars, stageVars, stdCall, propagate_exceptions, reaction, eqRole>>

\* Line 177: the outer loop moves to the next role.
EqNextRole ==
    /\ eqPc = "loop"
    /\ eqIdx = Len(reaction[eqRole])
    /\ eqRole < 3
    /\ eqRole' = eqRole + 1
    /\ eqIdx' = 0
    /\ UNCHANGED <<splitVars, gs, stdConfig, filterVars, stageVars, stdCall, propagate_exceptions, reaction,
                   standardized_reaction, invalid_smiles, rejected_smiles,
                   missing_annotations, eqPc>>

\* Lines 200-209: the return.
EqReturn ==
    /\ eqPc = "loop"
    /\ eqIdx = Len(reaction[eqRole])
    /\ eqRole = 3
    /\ standardized_reaction' =
           returned_reaction(standardized_reaction, invalid_smiles,
                             rejected_smiles, missing_annotations)
    /\ eqPc' = "returned"
    /\ UNCHANGED <<splitVars, gs, stdConfig, filterVars, stageVars, stdCall, propagate_exceptions, reaction,
                   eqRole, eqIdx, invalid_smiles, rejected_smiles, missing_annotations>>

NextEquation ==
    \/ \E n1 \in 0..MaxMols : \E n2 \in 0..(MaxMols - n1) : \E n3 \in 0..(MaxMols - n1 - n2) :
         \E reactants \in [1..n1 -> EquationMolSamples] :
           \E agents \in [1..n2 -> EquationMolSamples] :
             \E products \in [1..n3 -> EquationMolSamples] :
               \E propagate \in BOOLEAN :
                 EqStart(<<reactants, agents, products>>, propagate)
    \/ EqMolecule
    \/ EqNextRole
    \/ EqReturn

SpecEquation == InitStandardize /\ [][NextEquation]_vars

-----------------------------------------------------------------------------
(* Claims on MoleculeStandardizer.standardize.                              *)

\* The string the checks of a call are made on (lines 110-116).
CheckedString(smiles) ==
    IF canonicalize THEN canonicalize_smiles(remove_isotope_information(smiles)).value
    ELSE remove_isotope_information(smiles)

\* C5: with discard_missing_annotations set, a call on a molecule that is
\* annotated as rejected and whose elements satisfy the annotation criterion
\* raises RejectedMolecule, and the rejection lookup is the only lookup made:
\* the missing-annotation check is not reached.
C5_RejectionBeforeMissingAnnotation ==
    ( /\ stdCall # NoStdCall
      /\ discard_unannotated_metals
      /\ "~" \notin Range(stdCall.smiles)
      /\ canonicalize_smiles(remove_isotope_information(stdCall.smiles)).ok
      /\ CheckedString(stdCall.smiles) \in rejected_molecules
      /\ requires_annotation(CheckedString(stdCall.smiles)).value )
    => /\ stdCall.outcome = "RejectedMolecule"
       /\ stdCall.lookups = <<Lookup("rejection", CheckedString(stdCall.smiles))>>

C5_Witness ==
    /\ discard_unannotated_metals
    /\ stdCall.outcome = "RejectedMolecule"
    /\ requires_annotation(CheckedString(stdCall.smiles)).value

\* The statement of C6 for a given reading of "REJECT-annotated molecule":
\* rejectKeys are the canonical strings of the molecules so annotated.
ChecksOnCanonicalForm(rejectKeys) ==
    ( /\ stdCall # NoStdCall
      /\ canonicalize
      /\ "~" \notin Range(stdCall.smiles) )
    => LET key == canonicalize_smiles(remove_isotope_information(stdCall.smiles))
       IN  IF ~key.ok
           THEN stdCall.outcome = "InvalidSmiles" /\ stdCall.lookups = <<>>
           ELSE /\ stdCall.lookups # <<>>
                /\ \A i \in 1..Len(stdCall.lookups) : stdCall.lookups[i].key = key.value
                /\ key.value \in rejectKeys => stdCall.outcome = "RejectedMolecule"

\* C6: with canonicalize set, every annotation lookup of a call is made on the
\* canonical form of the isotope-stripped input; an input whose canonical form
\* is the key of a REJECT annotation, the key being itself canonical, raises
\* RejectedMolecule; an input the toolkit cannot parse raises InvalidSmiles
\* with no lookup made.
C6_ChecksOnCanonicalForm ==
    ChecksOnCanonicalForm(
        {k \in rejected_molecules : canonicalize_smiles(k).ok /\ canonicalize_smiles(k).value = k})

C6_Witness ==
    /\ canonicalize
    /\ stdCall.outcome = "RejectedMolecule"
    /\ stdCall.smiles # stdCall.lookups[1].key

\* C6 as stated: every spelling of a molecule that a REJECT annotation names,
\* under whatever spelling the annotation has, raises RejectedMolecule.
C6_AsStated ==
    ChecksOnCanonicalForm(
        {canonicalize_smiles(k).value : k \in {x \in rejected_molecules : canonicalize_smiles(x).ok}})

-----------------------------------------------------------------------------
(* Claims on standardize_in_equation_with_errors.                           *)

\* The molecules of the equation the loops have gone through, in order.
Examined ==
    Concat([r \in 1..(eqRole - 1) |-> reaction[r]]) \o SubSeq(reaction[eqRole], 1, eqIdx)

\* The molecules of ms that fail with an exception of the given set, in order.
Failing(ms, outcomes) == SelectSeq(ms, LAMBDA m : standardize(m).outcome \in outcomes)

\* C4: with propagate_exceptions = False, at the return: if a molecule of any
\* role fails standardization the returned equation is the empty one; if none
\* fails the three lists are empty and each role of the result is the in-order
\* concatenation of standardize(m) over the molecules m of the role.
C4_EmptyEquationOnAnyFailure ==
    (eqPc = "returned" /\ ~propagate_exceptions)
    => IF \E r \in 1..3 : \E i \in 1..Len(reaction[r]) :
              standardize(reaction[r][i]).outcome # "ok"
       THEN standardized_reaction = EmptyEquation
       ELSE /\ invalid_smiles = <<>>
            /\ rejected_smiles = <<>>
            /\ missing_annotations = <<>>
            /\ \A r \in 1..3 :
                 standardized_reaction[r] =
                     Concat([i \in 1..Len(reaction[r]) |-> standardize(reaction[r][i]).value])

C4_Witness ==
    /\ eqPc = "returned"
    /\ ~propagate_exceptions
    /\ standardized_reaction = EmptyEquation
    /\ invalid_smiles = <<>>
    /\ \E r \in 1..3 : \E i \in 1..Len(reaction[r]) :
          standardize(reaction[r][i]).outcome = "ok"
    /\ \E r \in 1..3 : \E i \in 1..Len(reaction[r]) :
          standardize(reaction[r][i]).outcome # "ok"

\* C7: with propagate_exceptions = False the call never ends with an
\* exception; the loops go through every molecule of the three roles; and the
\* three lists hold, in order, the examined molecules that fail: rejected
\* those raising RejectedMolecule, missing those raising MissingAnnotation,
\* invalid those raising InvalidSmiles or anything else (the ValueError for a
\* "~" included).
C7_EveryFailureCollected ==
    ~propagate_exceptions
    => /\ eqPc # "raised"
       /\ eqPc = "returned"
          => Examined = reaction[1] \o reaction[2] \o reaction[3]
       /\ eqPc \in {"loop", "returned"}
          => /\ rejected_smiles = Failing(Examined, {"RejectedMolecule"})
             /\ missing_annotations = Failing(Examined, {"MissingAnnotation"})
             /\ invalid_smiles = Failing(Examined, {"InvalidSmiles", "ValueError"})

C7_Witness ==
    /\ eqPc = "returned"
    /\ ~propagate_exceptions
    /\ rejected_smiles # <<>>
    /\ M_CtO \in Range(invalid_smiles)

-----------------------------------------------------------------------------
(* MixedReactionFilter.  A reaction is <<reactants, agents, products>>; the *)
(* thresholds are those of filterConfig.                                    *)

M_Ominus == <<"[", "O", "-", "-", "]">>             \* "[O--]"

\* The molecule strings the filtered reactions are made of.
\* "[Kr][Rn][Xe]" holds the three polymer placeholders, "[H]" a hydrogen.
M_KrRnXe == <<"[", "K", "r", "]", "[", "R", "n", "]", "[", "X", "e", "]">>

FilterMolSamples ==
    {M_C, <<"O">>, <<"C", "O">>, <<"O", "C">>, M_Ominus, <<"*">>, M_J,
     M_KrRnXe, <<"[", "H", "]">>}

\* rxn.chemutils smiles_to_mol, for the strings of the model: whether the
\* string parses (InvalidSmiles otherwise), the symbols of the atoms of the
\* molecule and its formal charge.
smiles_to_mol(s) ==
    CASE s # <<>> /\ Range(s) \subseteq {"C", "O"} -> [ok |-> TRUE, atoms |-> s, charge |-> 0]
      [] s = M_CC_C -> [ok |-> TRUE, atoms |-> M_CCC, charge |-> 0]
      [] s \in {<<"[", "C", "H", "4", "]">>, M_13CH4} -> [ok |-> TRUE, atoms |-> M_C, charge |-> 0]
      [] s = M_Pd -> [ok |-> TRUE, atoms |-> <<"Pd">>, charge |-> 0]
      [] s = M_Ominus -> [ok |-> TRUE, atoms |-> <<"O">>, charge |-> 0 - 2]
      [] s = <<"*">> -> [ok |-> TRUE, atoms |-> s, charge |-> 0]
      [] s = M_KrRnXe -> [ok |-> TRUE, atoms |-> <<"Kr", "Rn", "Xe">>, charge |-> 0]
      [] s = <<"[", "H", "]">> -> [ok |-> TRUE, atoms |-> <<"H">>, charge |-> 0]
      [] OTHER -> [ok |-> FALSE, atoms |-> <<>>, charge |-> 0]

\* MolEquation.from_reaction_equation: the three lists of molecules, or
\* InvalidSmiles (ok = FALSE) when some string does not parse.
from_reaction_equation(rxn) ==
    [ok |-> \A r \in 1..3 : \A i \in 1..Len(rxn[r]) : smiles_to_mol(rxn[r][i]).ok,
     mols |-> [r \in 1..3 |-> [i \in 1..Len(rxn[r]) |-> smiles_to_mol(rxn[r][i])]]]

RECURSIVE get_formal_charge_for_mols(_)
\* utils.get_formal_charge_for_mols
get_formal_charge_for_mols(mols) ==
    IF mols = <<>> THEN 0 ELSE Head(mols).charge + get_formal_charge_for_mols(Tail(mols))

\* utils.get_atoms_for_mols
get_atoms_for_mols(mols) == UNION {Range(mols[i].atoms) : i \in 1..Len(mols)}

RECURSIVE Join(_)
\* ".".join(smiles_list)
Join(smiles_list) ==
    IF smiles_list = <<>> THEN <<>>
    ELSE IF Len(smiles_list) = 1 THEN smiles_list[1]
    ELSE smiles_list[1] \o <<".">> \o Join(Tail(smiles_list))

RECURSIVE to_tokens(_)
\* rxn.chemutils to_tokens: a bracketed atom is one token, any other
\* character of the strings of the model is a token of its own.
to_tokens(smiles) ==
    IF smiles = <<>> THEN <<>>
    ELSE IF Head(smiles) = "[" /\ "]" \in Range(smiles)
    THEN LET close == CHOOSE j \in 1..Len(smiles) :
                         smiles[j] = "]" /\ \A k \in 1..(j - 1) : smiles[k] # "]"
         IN  <<SubSeq(smiles, 1, close)>> \o to_tokens(SubSeq(smiles, close + 1, Len(smiles)))
    ELSE <<<<Head(smiles)>>>> \o to_tokens(Tail(smiles))

\* _group_tokens_exceeded as data_preprocessor/mixed_reaction_filter.py wrote
\* it: no tokenizer call when the number of molecules is within the threshold.
group_tokens_exceeded_ShortCircuit(smiles_list, threshold) ==
    IF Len(smiles_list) <= threshold
    THEN [failed |-> FALSE, tokenized |-> <<>>]
    ELSE [failed |-> Len(to_tokens(Join(smiles_list))) > threshold,
          tokenized |-> <<Join(smiles_list)>>]

\* MixedReactionFilter._group_tokens_exceeded: the verdict, and the strings
\* it has handed to to_tokens.
group_tokens_exceeded(smiles_list, threshold) ==
    LET smiles == Join(smiles_list)
    IN  [failed |-> Len(to_tokens(smiles)) > threshold, tokenized |-> <<smiles>>]

\* MixedReactionFilter.products_subset_of_reactants
products_subset_of_reactants(rxn) ==
    Range(rxn[3]) # {} /\ Range(rxn[3]) \subseteq Range(rxn[1])

\* A check of one of the two lists on a reaction: its reason, whether the
\* reaction fails it, and the strings the check hands to the tokenizer.
Check(name, failed) == [name |-> name, failed |-> failed, tokenized |-> <<>>]

\* The list of the string-based checks with min_reactants_subceeded also
\* failing a count equal to the minimum.
smiles_based_checks_MinInclusive(rxn) ==
    << Check("max_reactants_exceeded", Len(rxn[1]) > filterConfig.max_reactants),
       Check("max_agents_exceeded", Len(rxn[2]) > filterConfig.max_agents),
       Check("max_products_exceeded", Len(rxn[3]) > filterConfig.max_products),
       Check("min_reactants_subceeded", Len(rxn[1]) <= filterConfig.min_reactants),
       Check("min_agents_subceeded", Len(rxn[2]) < filterConfig.min_agents),
       Check("min_products_subceeded", Len(rxn[3]) < filterConfig.min_products),
       Check("products_subset_of_reactants", products_subset_of_reactants(rxn)),
       [name |-> "max_reactant_tokens_exceeded"]
           @@ group_tokens_exceeded(rxn[1], filterConfig.max_reactants_tokens),
       [name |-> "max_agent_tokens_exceeded"]
           @@ group_tokens_exceeded(rxn[2], filterConfig.max_agents_tokens),
       [name |-> "max_product_tokens_exceeded"]
           @@ group_tokens_exceeded(rxn[3], filterConfig.max_products_tokens) >>

\* self.smiles_based_checks on a reaction: each check of the list, in the
\* order of the list, with its reason and whether the reaction fails it.
smiles_based_checks(rxn) ==
    << Check("max_reactants_exceeded", Len(rxn[1]) > filterConfig.max_reactants),
       Check("max_agents_exceeded", Len(rxn[2]) > filterConfig.max_agents),
       Check("max_products_exceeded", Len(rxn[3]) > filterConfig.max_products),
       Check("min_reactants_subceeded", Len(rxn[1]) < filterConfig.min_reactants),
       Check("min_agents_subceeded", Len(rxn[2]) < filterConfig.min_agents),
       Check("min_products_subceeded", Len(rxn[3]) < filterConfig.min_products),
       Check("products_subset_of_reactants", products_subset_of_reactants(rxn)),
       [name |-> "max_reactant_tokens_exceeded"]
           @@ group_tokens_exceeded(rxn[1], filterConfig.max_reactants_tokens),
       [name |-> "max_agent_tokens_exceeded"]
           @@ group_tokens_exceeded(rxn[2], filterConfig.max_agents_tokens),
       [name |-> "max_product_tokens_exceeded"]
           @@ group_tokens_exceeded(rxn[3], filterConfig.max_products_tokens) >>

\* MixedReactionFilter.products_single_atoms, on a MolEquation
products_single_atoms(mols) ==
    Len(mols[3]) > 0 /\ \A i \in 1..Len(mols[3]) : Len(mols[3][i].atoms) = 1

\* MixedReactionFilter.formal_charge_exceeded, on a MolEquation
formal_charge_exceeded(mols) ==
    LET abs(n) == IF n < 0 THEN 0 - n ELSE n
    IN  \E r \in 1..3 :
           abs(get_formal_charge_for_mols(mols[r])) > filterConfig.max_absolute_formal_charge

\* MixedReactionFilter.invalid_atom_type, on a MolEquation
invalid_atom_type(mols) == "*" \in get_atoms_for_mols(mols[1] \o mols[2] \o mols[3])

\* MixedReactionFilter.different_atom_types, on a MolEquation
\* The check with two of the placeholders exempted.
different_atom_types_TwoPlaceholders(mols) ==
    LET products_atoms == get_atoms_for_mols(mols[3]) \ ({"Kr", "Xe"} \cup {"H"})
    IN  products_atoms \ (get_atoms_for_mols(mols[1]) \cup get_atoms_for_mols(mols[2])) # {}

different_atom_types(mols) ==
    LET products_atoms == get_atoms_for_mols(mols[3]) \ ({"Kr", "Rn", "Xe"} \cup {"H"})
    IN  products_atoms \ (get_atoms_for_mols(mols[1]) \cup get_atoms_for_mols(mols[2])) # {}

\* self.mol_based_checks on a MolEquation, in the order of the list.
mol_based_checks(mols) ==
    << Check("products_single_atoms", products_single_atoms(mols)),
       Check("formal_charge_exceeded", formal_charge_exceeded(mols)),
       Check("invalid_atom_type", invalid_atom_type(mols)),
       Check("different_atom_types", different_atom_types(mols)) >>

\* The reasons of the checks of a list, in order.
Names(checks) == [i \in 1..Len(checks) |-> checks[i].name]

\* any(): the checks of a list are evaluated up to the first failing one.
EvaluatedByAny(checks) ==
    IF \E i \in 1..Len(checks) : checks[i].failed
    THEN SubSeq(checks, 1, CHOOSE i \in 1..Len(checks) :
                              checks[i].failed /\ \A k \in 1..(i - 1) : ~checks[k].failed)
    ELSE checks

\* is_valid with a parse failure not counted as a failing check.
is_valid_InvalidSmilesPasses(rxn) ==
    LET smiles_run == EvaluatedByAny(smiles_based_checks(rxn))
        mol_equation == from_reaction_equation(rxn)
        mol_run == EvaluatedByAny(mol_based_checks(mol_equation.mols))
    IN  IF \E i \in 1..Len(smiles_run) : smiles_run[i].failed
        THEN [valid |-> FALSE, evaluated |-> Names(smiles_run)]
        ELSE IF ~mol_equation.ok
        THEN [valid |-> TRUE,
              evaluated |-> Names(smiles_run) \o <<"from_reaction_equation">>]
        ELSE [valid |-> \A i \in 1..Len(mol_run) : ~mol_run[i].failed,
              evaluated |-> Names(smiles_run) \o <<"from_reaction_equation">>
                            \o Names(mol_run)]

\* is_valid with every check of both lists called, whatever the earlier
\* ones returned.
is_valid_EveryCheckCalled(rxn) ==
    LET smiles_run == smiles_based_checks(rxn)
        mol_equation == from_reaction_equation(rxn)
        mol_run == mol_based_checks(mol_equation.mols)
    IN  [valid |-> /\ \A i \in 1..Len(smiles_run) : ~smiles_run[i].failed
                   /\ mol_equation.ok
                   /\ \A i \in 1..Len(mol_run) : ~mol_run[i].failed,
         evaluated |-> Names(smiles_run) \o <<"from_reaction_equation">>
                       \o Names(mol_run)]

\* MixedReactionFilter.is_valid: the verdict, and the callbacks that any()
\* has pulled from the generator and called, in order.
is_valid(rxn) ==
    LET smiles_run == EvaluatedByAny(smiles_based_checks(rxn))
        mol_equation == from_reaction_equation(rxn)
        mol_run == EvaluatedByAny(mol_based_checks(mol_equation.mols))
    IN  IF \E i \in 1..Len(smiles_run) : smiles_run[i].failed
        THEN [valid |-> FALSE, evaluated |-> Names(smiles_run)]
        ELSE IF ~mol_equation.ok
        THEN [valid |-> FALSE,
              evaluated |-> Names(smiles_run) \o <<"from_reaction_equation">>]
        ELSE [valid |-> \A i \in 1..Len(mol_run) : ~mol_run[i].failed,
              evaluated |-> Names(smiles_run) \o <<"from_reaction_equation">>
                            \o Names(mol_run)]

\* validate_reasons with the toolkit-based checks run after a parse failure.
validate_reasons_MolChecksAfterFailure(rxn) ==
    LET failing(checks) == Names(SelectSeq(checks, LAMBDA c : c.failed))
        mol_equation == from_reaction_equation(rxn)
        reasons == failing(smiles_based_checks(rxn))
                   \o (IF ~mol_equation.ok THEN <<"rdkit_molfromsmiles_failed">> ELSE <<>>)
                   \o failing(mol_based_checks(mol_equation.mols))
    IN  [valid |-> reasons = <<>>, reasons |-> reasons]

\* MixedReactionFilter.validate_reasons
validate_reasons(rxn) ==
    LET failing(checks) == Names(SelectSeq(checks, LAMBDA c : c.failed))
        mol_equation == from_reaction_equation(rxn)
        reasons == failing(smiles_based_checks(rxn))
                   \o (IF ~mol_equation.ok
                       THEN <<"rdkit_molfromsmiles_failed">>
                       ELSE failing(mol_based_checks(mol_equation.mols)))
    IN  [valid |-> reasons = <<>>, reasons |-> reasons]

\* MixedReactionFilter.validate: returns, or raises
\* ReactionFilterError(reaction, reasons).
validate(rxn) ==
    LET result == validate_reasons(rxn)
    IN  [raised |-> ~result.valid, reaction |-> rxn, reasons |-> result.reasons]

\* The strings handed to to_tokens, in order, by a call that runs the
\* string-based checks of the given names on a reaction.
tokenizer_calls(rxn, names) ==
    LET checks == smiles_based_checks(rxn)
    IN  Concat([i \in 1..Len(checks) |->
                   IF \E k \in 1..Len(names) : names[k] = checks[i].name
                   THEN checks[i].tokenized ELSE <<>>])

IsValidCall(rxn) ==
    /\ LET result == is_valid(rxn)
       IN  filterCall' = [fn |-> "is_valid", reaction |-> rxn, valid |-> result.valid,
                          reasons |-> <<>>, evaluated |-> result.evaluated,
                          tokenized |-> tokenizer_calls(rxn, result.evaluated),
                          raised |-> FALSE, carried |-> EmptyEquation]
    /\ UNCHANGED <<splitVars, gs, stdConfig, stdCall, eqVars, filterConfig, stageVars>>

ValidateReasonsCall(rxn) ==
    /\ LET result == validate_reasons(rxn)
       IN  filterCall' = [fn |-> "validate_reasons", reaction |-> rxn,
                          valid |-> result.valid, reasons |-> result.reasons,
                          evaluated |-> <<>>,
                          tokenized |-> tokenizer_calls(
                              rxn, Names(smiles_based_checks(rxn))),
                          raised |-> FALSE, carried |-> EmptyEquation]
    /\ UNCHANGED <<splitVars, gs, stdConfig, stdCall, eqVars, filterConfig, stageVars>>

\* A call of validate: valid records that it returned; carried and reasons
\* are those of the ReactionFilterError when it raised.
ValidateCall(rxn) ==
    /\ LET result == validate(rxn)
       IN  filterCall' = [fn |-> "validate", reaction |-> rxn,
                          valid |-> ~result.raised,
                          reasons |-> IF result.raised THEN result.reasons ELSE <<>>,
                          evaluated |-> <<>>,
                          tokenized |-> tokenizer_calls(
                              rxn, Names(smiles_based_checks(rxn))),
                          raised |-> result.raised,
                          carried |-> IF result.raised
                                      THEN result.reaction ELSE EmptyEquation]
    /\ UNCHANGED <<splitVars, gs, stdConfig, stdCall, eqVars, filterConfig, stageVars>>

\* The threshold configurations tried.
FilterConfigs ==
    { MixedReactionFilter(max_reactants, agents, 1, min_reactants, agents, 1,
                          tokens[1], agents, tokens[2], 2) :
        max_reactants \in {1, 10}, min_reactants \in {1, 2}, agents \in {0, 1},
        tokens \in {<<1, 1>>, <<300, 200>>} }

InitFilter ==
    /\ hashSalt = 0
    /\ hash_seed = 0
    /\ split_ratio = RatioSamples[1]
    /\ shuffle_seed = 42
    /\ SplitterIdle
    /\ StandardizerUnused
    /\ filterConfig \in FilterConfigs
    /\ filterCall = NoFilterCall
    /\ StagesUnused

\* The reactions of up to MaxMols molecules.
FilterReactions ==
    UNION { UNION { UNION { { <<reactants, agents, products>> :
                                reactants \in [1..n1 -> FilterMolSamples],
                                agents \in [1..n2 -> FilterMolSamples],
                                products \in [1..n3 -> FilterMolSamples] } :
                            n3 \in 0..(MaxMols - n1 - n2) } :
                    n2 \in 0..(MaxMols - n1) } :
            n1 \in 0..MaxMols }

\* The filter holds no state between calls: a behaviour makes one call.
NextFilter ==
    \/ filterCall = NoFilterCall /\ \E rxn \in FilterReactions : IsValidCall(rxn)
    \/ filterCall = NoFilterCall /\ \E rxn \in FilterReactions : ValidateReasonsCall(rxn)
    \/ filterCall = NoFilterCall /\ \E rxn \in FilterReactions : ValidateCall(rxn)

SpecFilter == InitFilter /\ [][NextFilter]_vars

-----------------------------------------------------------------------------
(* Claims on MixedReactionFilter.                                           *)

C10_CountBounds ==
    LET rxn == filterCall.reaction
        listed(reason) == reason \in Range(filterCall.reasons)
    IN  /\ filterCall.fn = "validate_reasons"
           => /\ listed("max_reactants_exceeded") <=> Len(rxn[1]) > filterConfig.max_reactants
              /\ listed("max_agents_exceeded") <=> Len(rxn[2]) > filterConfig.max_agents
              /\ listed("max_products_exceeded") <=> Len(rxn[3]) > filterConfig.max_products
              /\ listed("min_reactants_subceeded") <=> Len(rxn[1]) < filterConfig.min_reactants
              /\ listed("min_agents_subceeded") <=> Len(rxn[2]) < filterConfig.min_agents
              /\ listed("min_products_subceeded") <=> Len(rxn[3]) < filterConfig.min_products
        /\ ( /\ rxn = <<<<M_C>>, <<<<"O">>>>, <<>>>>
             /\ filterConfig = MixedReactionFilter(10, 0, 1, 2, 0, 1, 300, 0, 200, 2) )
           => /\ filterCall.fn = "is_valid" => ~filterCall.valid
              /\ filterCall.fn = "validate_reasons"
                 => listed("min_reactants_subceeded") /\ listed("min_products_subceeded")

C10_Witness ==
    /\ filterCall.fn = "validate_reasons"
    /\ filterCall.reaction = <<<<M_C>>, <<<<"O">>>>, <<>>>>
    /\ filterConfig = MixedReactionFilter(10, 0, 1, 2, 0, 1, 300, 0, 200, 2)
    /\ "min_reactants_subceeded" \in Range(filterCall.reasons)

-----------------------------------------------------------------------------
(* ReactionStandardizer.  The four steps are functions of rxn.chemutils,    *)
(* each returning a new equation.                                           *)

\* ord(c), up to the gaps between the characters of the model, which are
\* listed in the order of their code points.
ord(c) ==
    LET alphabet ==
            << "(", ")", "*", "-", ".", "0", "1", "2", "3", "4", "5", "6", "7", "8", "9",
               ">", "A", "B", "C", "D", "E", "F", "G", "H", "J", "N", "O", "P", "[", "]",
               "d", "~" >>
    IN  CHOOSE i \in 1..Len(alphabet) : alphabet[i] = c

RECURSIVE StringLess(_, _)
\* a < b on Python strings
StringLess(a, b) ==
    IF b = <<>> THEN FALSE
    ELSE IF a = <<>> THEN TRUE
    ELSE IF Head(a) # Head(b) THEN ord(Head(a)) < ord(Head(b))
    ELSE StringLess(Tail(a), Tail(b))

\* merge_reactants_and_agents
merge_reactants_and_agents(rxn) == <<rxn[1] \o rxn[2], <<>>, rxn[3]>>

\* remove_precursors_from_products
remove_precursors_from_products(rxn) ==
    <<rxn[1], rxn[2],
      SelectSeq(rxn[3], LAMBDA m : m \notin Range(rxn[1]) \cup Range(rxn[2]))>>

\* The first occurrences of the elements of a list, in order.
FirstOccurrences(s) ==
    LET first == {i \in 1..Len(s) : \A k \in 1..(i - 1) : s[k] # s[i]}
        place(n) == CHOOSE i \in first : Cardinality({k \in first : k < i}) = n - 1
    IN  [n \in 1..Cardinality(first) |-> s[place(n)]]

\* remove_duplicate_compounds
remove_duplicate_compounds(rxn) == [r \in 1..3 |-> FirstOccurrences(rxn[r])]

\* sort_compounds with the products left as they are.
sort_compounds_ReactantsOnly(rxn) ==
    <<SortSeq(rxn[1], StringLess), SortSeq(rxn[2], StringLess), rxn[3]>>

\* sort_compounds
sort_compounds(rxn) == [r \in 1..3 |-> SortSeq(rxn[r], StringLess)]

\* standardize with the duplicates removed before the merge.
ReactionStandardizer_standardize_DuplicatesFirst(rxn) ==
    sort_compounds(remove_precursors_from_products(
        merge_reactants_and_agents(remove_duplicate_compounds(rxn))))

\* ReactionStandardizer.standardize
ReactionStandardizer_standardize(rxn) ==
    sort_compounds(remove_duplicate_compounds(
        remove_precursors_from_products(merge_reactants_and_agents(rxn))))

\* The equations of up to MaxMols molecules drawn from a set of strings.
EquationsOf(samples) ==
    UNION { UNION { UNION { { <<reactants, agents, products>> :
                                reactants \in [1..n1 -> samples],
                                agents \in [1..n2 -> samples],
                                products \in [1..n3 -> samples] } :
                            n3 \in 0..(MaxMols - n1 - n2) } :
                    n2 \in 0..(MaxMols - n1) } :
            n1 \in 0..MaxMols }

\* A call of the standardizer: on any equation first, then on what the call
\* before returned.  The argument is not written to (line 40).
ReactionStandardizerCall(rxn) ==
    /\ rsCall.nth < 2
    /\ rsCall' = [nth |-> rsCall.nth + 1, given |-> rxn, reaction |-> rxn,
                  returned |-> ReactionStandardizer_standardize(rxn)]
    /\ UNCHANGED <<splitVars, gs, stdConfig, stdCall, eqVars, filterVars, viewCall, dedupCall, csv_input, csv_output, error_counter, printed>>

\* No object of the model has been used.
InitStages ==
    /\ hashSalt = 0
    /\ hash_seed = 0
    /\ split_ratio = RatioSamples[1]
    /\ shuffle_seed = 42
    /\ SplitterIdle
    /\ StandardizerUnused
    /\ FilterUnused
    /\ StagesUnused

\* The molecule strings of the equations are A, B, F and the two-fragment A.B.
NextReaction ==
    \E rxn \in IF rsCall = NoReactionCall
               THEN EquationsOf({<<"A">>, <<"B">>, <<"A", ".", "B">>, <<"F">>})
               ELSE {rsCall.returned} :
        ReactionStandardizerCall(rxn)

SpecReaction == InitStages /\ [][NextReaction]_vars

-----------------------------------------------------------------------------
(* Claims on ReactionStandardizer.                                          *)

\* C11: standardize is idempotent: a call on the equation that a call
\* returned returns that equation again.
C11_StandardizeIdempotent ==
    [][rsCall # NoReactionCall => rsCall'.returned = rsCall.returned]_vars

C11_Witness ==
    /\ rsCall.nth = 2
    /\ rsCall.given = rsCall.returned
    /\ Len(rsCall.returned[1]) = 2

\* C12: the call leaves its argument as it was and returns an equation
\* without agents, whose reactants are the distinct strings of the given
\* reactants and agents, sorted, and whose products are the distinct strings
\* of the given products that equal no given reactant or agent, sorted;
\* strings are compared whole.
C12_MergedDistinctSorted ==
    rsCall # NoReactionCall
    => LET precursors == Range(rsCall.given[1]) \cup Range(rsCall.given[2])
           StrictlySorted(s) == \A i \in 1..(Len(s) - 1) : StringLess(s[i], s[i + 1])
       IN  /\ rsCall.reaction = rsCall.given
           /\ rsCall.returned[2] = <<>>
           /\ StrictlySorted(rsCall.returned[1])
           /\ Range(rsCall.returned[1]) = precursors
           /\ StrictlySorted(rsCall.returned[3])
           /\ Range(rsCall.returned[3]) = Range(rsCall.given[3]) \ precursors

C12_Witness ==
    /\ rsCall.nth = 1
    /\ rsCall.given[1] = <<<<"A", ".", "B">>>>
    /\ rsCall.given[3] = <<<<"A">>>>
    /\ rsCall.returned = <<<<<<"A", ".", "B">>>>, <<>>, <<<<"A">>>>>>

-----------------------------------------------------------------------------
(* The three views built from a list of annotations, queried with one       *)
(* molecule string: RejectedMoleculesFilter.is_valid_molecule_smiles,        *)
(* MissingAnnotationDetector.molecule_needs_annotation and                   *)
(* MoleculeReplacer.replace_molecule_smiles.  viewCall records the query,    *)
(* the exception raised ("none" when the call returns) and the value.        *)

\* The annotation lists the views are built from; originals and updated
\* values are written with "~" as the fragment bond.
ViewAnnotationLists ==
    { <<>>,
      <<Annotation(M_Pd \o <<"~">> \o M_C, <<>>, FALSE, "REJECT"),
        Annotation(<<"C", "C">>, <<>>, FALSE, "ACCEPT")>>,
      <<Annotation(M_Pd \o <<"~">> \o M_C \o <<"~", "C", "C">>,
                   M_Pd \o <<"~">> \o M_C \o <<".", "C", "C">>, TRUE, "ACCEPT"),
        Annotation(M_C, <<"C", "C">>, TRUE, "REJECT")>>,
      <<Annotation(M_Pd, M_Pd \o <<"~">> \o M_C, TRUE, "ACCEPT"),
        Annotation(M_C, <<"C", "C">>, TRUE, "ACCEPT")>>,
      <<Annotation(<<"C", "C">>, M_Pd \o <<".">> \o M_C, TRUE, "ACCEPT")>> }

\* The molecule strings the views are queried with: single molecules,
\* multi-fragment molecules written with dots and with "~", in both fragment
\* orders, a bigger complex, and a string that does not parse.
ViewQueries ==
    { M_Pd, M_C, <<"C", "C">>, M_J,
      M_Pd \o <<".">> \o M_C, M_Pd \o <<"~">> \o M_C, M_C \o <<".">> \o M_Pd,
      M_Pd \o <<".">> \o M_C \o <<".", "C">>,
      M_Pd \o <<".">> \o M_C \o <<".", "C", "C">>,
      M_Pd \o <<"~">> \o M_C \o <<"~", "C", "C">> }

\* A call of RejectedMoleculesFilter.is_valid_molecule_smiles.
IsValidMoleculeCall(smiles) ==
    /\ viewCall' = [fn |-> "is_valid_molecule_smiles", smiles |-> smiles,
                    raised |-> "none", value |-> is_valid_molecule_smiles(smiles)]
    /\ UNCHANGED <<splitVars, gs, stdConfig, stdCall, eqVars, filterVars, rsCall, dedupCall, csv_input, csv_output, error_counter, printed>>

\* A call of MissingAnnotationDetector.molecule_needs_annotation.
MoleculeNeedsAnnotationCall(smiles) ==
    /\ viewCall' = LET result == molecule_needs_annotation(smiles)
                   IN  [fn |-> "molecule_needs_annotation", smiles |-> smiles,
                        raised |-> IF result.ok THEN "none" ELSE "InvalidSmiles",
                        value |-> result.value]
    /\ UNCHANGED <<splitVars, gs, stdConfig, stdCall, eqVars, filterVars, rsCall, dedupCall, csv_input, csv_output, error_counter, printed>>

\* A call of MoleculeReplacer.replace_molecule_smiles.
ReplaceMoleculeCall(smiles) ==
    /\ viewCall' = [fn |-> "replace_molecule_smiles", smiles |-> smiles,
                    raised |-> "none", value |-> replace_molecule_smiles(smiles)]
    /\ UNCHANGED <<splitVars, gs, stdConfig, stdCall, eqVars, filterVars, rsCall, dedupCall, csv_input, csv_output, error_counter, printed>>

\* The three views are built from one list of annotations.
InitViews ==
    /\ hashSalt = 0
    /\ hash_seed = 0
    /\ split_ratio = RatioSamples[1]
    /\ shuffle_seed = 42
    /\ SplitterIdle
    /\ annotations \in ViewAnnotationLists
    /\ discard_unannotated_metals = FALSE
    /\ canonicalize = TRUE
    /\ StandardizerIdle
    /\ FilterUnused
    /\ StagesUnused

NextViews ==
    \/ \E smiles \in ViewQueries : IsValidMoleculeCall(smiles)
    \/ \E smiles \in ViewQueries : MoleculeNeedsAnnotationCall(smiles)
    \/ \E smiles \in ViewQueries : ReplaceMoleculeCall(smiles)

SpecViews == InitViews /\ [][NextViews]_vars

\* C13: replace_molecule_smiles returns, for a string equal to the
\* dot-normalized original of an ACCEPT annotation that has an updated value,
\* the molecules of that updated value (its pieces between the dots), and the
\* one-element list of the string itself in every other case.
C13_ExactMatchReplacement ==
    viewCall.fn = "replace_molecule_smiles"
    => LET matching ==
               {a \in Range(annotations) :
                   /\ a.decision = "ACCEPT"
                   /\ a.has_updated
                   /\ original_without_fragment_bond(a) = viewCall.smiles}
       IN  /\ viewCall.raised = "none"
           /\ IF matching = {}
              THEN viewCall.value = <<viewCall.smiles>>
              ELSE \E a \in matching :
                      LET pieces == SplitDotsFrom(a.updated_smiles, <<>>, 1)
                      IN  /\ Len(viewCall.value) = Len(pieces)
                          /\ \A i \in 1..Len(pieces) :
                                viewCall.value[i] = ReplaceTildes(pieces[i])

\* The original "[Pd]~C~CC" with the updated value "[Pd]~C.CC" is matched by
\* the dot-spelled query and gives the two molecules "[Pd].C" and "CC".
C13_Witness ==
    /\ viewCall.fn = "replace_molecule_smiles"
    /\ viewCall.smiles = M_Pd \o <<".">> \o M_C \o <<".", "C", "C">>
    /\ viewCall.value = << M_Pd \o <<".">> \o M_C, <<"C", "C">> >>

\* C14: no string returned by MoleculeStandardizer.standardize contains the
\* fragment bond "~"; when a replacement was made, the dots of the updated
\* value separate the molecules returned and its tildes are the dots inside
\* them, so that writing the molecules back with "~" as the fragment bond and
\* "." between them gives the updated value again.
C14_NoBareFragmentBond ==
    stdCall.outcome = "ok"
    => /\ \A i \in 1..Len(stdCall.value) : "~" \notin Range(stdCall.value[i])
       /\ LET checked == CheckedString(stdCall.smiles)
              with_fragment_bond ==
                  [i \in 1..Len(stdCall.value) |->
                      [j \in 1..Len(stdCall.value[i]) |->
                          IF stdCall.value[i][j] = "." THEN "~" ELSE stdCall.value[i][j]]]
          IN  ReplacementRules(checked) # {}
              => \E k \in ReplacementRules(checked) :
                    Join(with_fragment_bond) = annotations[k].updated_smiles

\* "CCCC" with the updated value "CC~C.CC" gives the molecules "CC.C" and "CC".
C14_Witness ==
    /\ stdCall.outcome = "ok"
    /\ stdCall.smiles = M_CCCC
    /\ stdCall.value = << <<"C", "C", ".", "C">>, <<"C", "C">> >>

\* C15: molecule_needs_annotation returns TRUE exactly when the annotation
\* criterion holds for the string, the string equals no dot-normalized
\* original of an annotation of either decision, and it equals no updated
\* value that consists of exactly one molecule; the parts of an updated value
\* of several molecules do not count as annotated.
C15_NeedsAnnotation ==
    viewCall.fn = "molecule_needs_annotation"
    => LET m == viewCall.smiles
           criterion ==
               /\ viewCall.raised = "none"
               /\ \E i \in 1..(Len(m) - 1) : m[i] = "P" /\ m[i + 1] = "d"
           is_original == \E a \in Range(annotations) : ReplaceTildes(a.original_smiles) = m
           is_single_update ==
               \E a \in Range(annotations) :
                  /\ a.has_updated
                  /\ "." \notin Range(a.updated_smiles)
                  /\ ReplaceTildes(a.updated_smiles) = m
       IN  (viewCall.value = TRUE) <=> (criterion /\ ~is_original /\ ~is_single_update)

\* "[Pd]" is a part of the two-molecule updated value "[Pd].C" and of no
\* other annotation: it needs an annotation.
C15_Witness ==
    /\ viewCall.fn = "molecule_needs_annotation"
    /\ viewCall.smiles = M_Pd
    /\ \E a \in Range(annotations) : a.updated_smiles = M_Pd \o <<".">> \o M_C
    /\ viewCall.value = TRUE

\* C16: is_valid_molecule_smiles returns FALSE exactly when the string equals
\* the dot-normalized original of some REJECT annotation; a bigger complex,
\* another fragment order, the "~" spelling and the original of an ACCEPT
\* annotation are all valid.
C16_RejectedExactMatch ==
    viewCall.fn = "is_valid_molecule_smiles"
    => /\ viewCall.raised = "none"
       /\ (viewCall.value = FALSE)
          <=> \E a \in Range(annotations) :
                 /\ a.decision = "REJECT"
                 /\ Len(a.original_smiles) = Len(viewCall.smiles)
                 /\ \A i \in 1..Len(viewCall.smiles) :
                       viewCall.smiles[i] = IF a.original_smiles[i] = "~" THEN "."
                                            ELSE a.original_smiles[i]

\* With the REJECT annotation "[Pd]~C", the query "[Pd]~C" is valid.
C16_Witness ==
    /\ viewCall.fn = "is_valid_molecule_smiles"
    /\ viewCall.smiles = M_Pd \o <<"~">> \o M_C
    /\ \E a \in Range(annotations) : a.decision = "REJECT" /\ a.original_smiles = viewCall.smiles
    /\ viewCall.value = TRUE

\* C17: the views normalize the stored originals, not the query.  A query is
\* compared as written: one that writes a fragment bond as "~" matches no
\* annotation (it is valid, it is returned unchanged, and it needs an
\* annotation exactly when the criterion holds), while the same molecule
\* written with dots is matched whichever way the annotation was written.
C17_QueryComparedAsWritten ==
    LET m == viewCall.smiles
        stored == {ReplaceTildes(a.original_smiles) : a \in Range(annotations)}
    IN  /\ ( viewCall.fn = "is_valid_molecule_smiles" /\ "~" \in Range(m) )
           => viewCall.value = TRUE
        /\ ( viewCall.fn = "replace_molecule_smiles" /\ "~" \in Range(m) )
           => viewCall.value = <<m>>
        /\ ( /\ viewCall.fn = "molecule_needs_annotation"
             /\ "~" \in Range(m)
             /\ viewCall.raised = "none" )
           => viewCall.value = \E i \in 1..(Len(m) - 1) : m[i] = "P" /\ m[i + 1] = "d"
        /\ ( viewCall.fn = "molecule_needs_annotation" /\ "~" \notin Range(m) /\ m \in stored )
           => viewCall.value = FALSE
        /\ ( /\ viewCall.fn = "is_valid_molecule_smiles"
             /\ "~" \notin Range(m)
             /\ \E a \in Range(annotations) :
                   a.decision = "REJECT" /\ ReplaceTildes(a.original_smiles) = m )
           => viewCall.value = FALSE

\* The query "[Pd]~C~CC" is returned unchanged by the replacer that turns
\* "[Pd].C.CC" into two molecules.
C17_Witness ==
    /\ viewCall.fn = "replace_molecule_smiles"
    /\ viewCall.smiles = M_Pd \o <<"~">> \o M_C \o <<"~", "C", "C">>
    /\ viewCall.value = <<viewCall.smiles>>
    /\ Len(replace_molecule_smiles(ReplaceTildes(viewCall.smiles))) = 2

\* C17 as the specification states it: a query written with "~" is answered
\* as the same query written with dots.
C17_AsStated ==
    "~" \in Range(viewCall.smiles)
    => CASE viewCall.fn = "is_valid_molecule_smiles"
              -> viewCall.value = is_valid_molecule_smiles(ReplaceTildes(viewCall.smiles))
         [] viewCall.fn = "replace_molecule_smiles"
              -> viewCall.value = replace_molecule_smiles(ReplaceTildes(viewCall.smiles))
         [] viewCall.fn = "molecule_needs_annotation"
              -> viewCall.value = molecule_needs_annotation(ReplaceTildes(viewCall.smiles)).value
         [] OTHER -> TRUE

\* C18: is_valid_molecule_smiles and replace_molecule_smiles return a value
\* for every string, and without a match the values are "valid" and the list
\* of the string itself.  molecule_needs_annotation evaluates the criterion
\* first: it raises InvalidSmiles exactly for a string with a fragment that
\* does not parse, and returns a boolean for every other string.
C18_OnlyTheCriterionRaises ==
    LET m == viewCall.smiles
        fragments == SplitDotsFrom(ReplaceTildes(m), <<>>, 1)
        parses == \A i \in 1..Len(fragments) : canonicalize_smiles(fragments[i]).ok
    IN  /\ viewCall.fn \in {"is_valid_molecule_smiles", "replace_molecule_smiles"}
           => viewCall.raised = "none"
        /\ ( viewCall.fn = "is_valid_molecule_smiles" /\ annotations = <<>> )
           => viewCall.value = TRUE
        /\ ( viewCall.fn = "replace_molecule_smiles" /\ annotations = <<>> )
           => viewCall.value = <<m>>
        /\ viewCall.fn = "molecule_needs_annotation"
           => /\ (viewCall.raised = "InvalidSmiles") <=> ~parses
              /\ (viewCall.raised = "none") <=> parses
              /\ viewCall.value \in BOOLEAN

\* molecule_needs_annotation raises on "[J]", which the other views answer.
C18_Witness ==
    /\ viewCall.fn = "molecule_needs_annotation"
    /\ viewCall.smiles = M_J
    /\ viewCall.raised = "InvalidSmiles"

\* C18 as the specification states it: no query of a view raises.
C18_AsStated == viewCall.raised = "none"

-----------------------------------------------------------------------------
(* preprocessor.py: remove_duplicate_reactions, validate and the pipeline of *)
(* preprocess.  A row of the csv file is a record with the reaction column   *)
(* "rxn" and one other column, "class".                                      *)

\* Bound on the number of rows of a csv file.
MaxCsvRows == 3

\* The stage with the whole row as the key.
remove_duplicate_reactions_WholeRow(rows) ==
    LET first == {i \in 1..Len(rows) : \A k \in 1..(i - 1) : rows[k] # rows[i]}
        place(n) == CHOOSE i \in first : Cardinality({k \in first : k < i}) = n - 1
    IN  [n \in 1..Cardinality(first) |-> rows[place(n)]]

\* remove_duplicate_reactions: iterate_unique_values with the value of the
\* reaction column as the key yields a row when its key was not seen before.
remove_duplicate_reactions(rows) ==
    LET first == {i \in 1..Len(rows) : \A k \in 1..(i - 1) : rows[k].rxn # rows[i].rxn}
        place(n) == CHOOSE i \in first : Cardinality({k \in first : k < i}) = n - 1
    IN  [n \in 1..Cardinality(first) |-> rows[place(n)]]

\* A call of remove_duplicate_reactions on a sequence of rows.
DedupCall(rows) ==
    /\ dedupCall.nth < 2
    /\ dedupCall' = [nth |-> dedupCall.nth + 1, given |-> rows,
                     returned |-> remove_duplicate_reactions(rows)]
    /\ UNCHANGED <<splitVars, gs, stdConfig, stdCall, eqVars, filterVars, rsCall, viewCall,
                   csv_input, csv_output, error_counter, printed>>

\* The rows of a file of reactions "A", "B" and "F" with classes "1" and "2".
DedupRows == [rxn : {<<"A">>, <<"B">>, <<"F">>}, class : {"1", "2"}]

\* The stage is applied to any sequence of rows, and then to its own result.
NextDedup ==
    \E rows \in IF dedupCall = NoDedupCall
                THEN UNION {[1..n -> DedupRows] : n \in 0..MaxCsvRows}
                ELSE {dedupCall.returned} :
        DedupCall(rows)

SpecDedup == InitStages /\ [][NextDedup]_vars

\* C19: remove_duplicate_reactions returns exactly the rows that are the
\* first with their value of the reaction column, in the order of the input,
\* whatever the other columns of the later rows are; and the stage applied
\* to its own result returns that result.
C19_FirstOccurrencesInOrder ==
    /\ [](dedupCall # NoDedupCall
          => LET given == dedupCall.given
                 returned == dedupCall.returned
                 is_first(i) == \A k \in 1..(i - 1) : given[k].rxn # given[i].rxn
             IN  \E at \in [1..Len(returned) -> 1..Len(given)] :
                    /\ \A n \in 1..Len(returned) :
                          returned[n] = given[at[n]] /\ is_first(at[n])
                    /\ \A n \in 1..(Len(returned) - 1) : at[n] < at[n + 1]
                    /\ \A i \in 1..Len(given) :
                          is_first(i) => \E n \in 1..Len(returned) : at[n] = i)
    /\ [][dedupCall # NoDedupCall => dedupCall'.returned = dedupCall.returned]_vars

\* Three rows, the second a repetition of the reaction of the first with
\* another class: the first and the third are returned.
C19_Witness ==
    /\ dedupCall.nth = 1
    /\ Len(dedupCall.given) = 3
    /\ dedupCall.given[1].rxn = dedupCall.given[2].rxn
    /\ dedupCall.given[1].class # dedupCall.given[2].class
    /\ dedupCall.returned = <<dedupCall.given[1], dedupCall.given[3]>>

-----------------------------------------------------------------------------
(* preprocess: first deduplication, reaction standardization, second        *)
(* deduplication, filtering, writing.  The stages are generators chained on *)
(* the input file, so that after the k-th input row has been pulled the     *)
(* output holds what the chain yields on the first k rows.  The fragment    *)
(* bond is the default of the configuration, ".".                           *)

\* ReactionEquation.from_string(smiles, "."), also parse_any_reaction_smiles
\* on a reaction SMILES of the standard format: the three parts between the
\* ">", each split on the dots, the empty pieces dropped.
from_string(smiles) ==
    LET arrows == {i \in 1..Len(smiles) : smiles[i] = ">"}
        first == CHOOSE i \in arrows : \A j \in arrows : i <= j
        last == CHOOSE i \in arrows : \A j \in arrows : j <= i
        molecules(part) == SelectSeq(SplitDotsFrom(part, <<>>, 1), LAMBDA m : m # <<>>)
    IN  << molecules(SubSeq(smiles, 1, first - 1)),
           molecules(SubSeq(smiles, first + 1, last - 1)),
           molecules(SubSeq(smiles, last + 1, Len(smiles))) >>

\* ReactionEquation.to_string("."): the molecules of each role joined with
\* ".", the roles joined with ">".
to_string(rxn) == Join(rxn[1]) \o <<">">> \o Join(rxn[2]) \o <<">">> \o Join(rxn[3])

\* Preprocessor.standardize_rxn_smiles
standardize_rxn_smiles(rxn_smiles) ==
    to_string(ReactionStandardizer_standardize(from_string(rxn_smiles)))

\* validate: the rows whose reaction, parsed again from the reaction column,
\* is valid for the MixedReactionFilter; a row is yielded as it came.
validate_rows(rows) ==
    SelectSeq(rows, LAMBDA row : validate_reasons(from_string(row.rxn)).valid)

\* The chain with the filter placed before the reaction standardization.
preprocess_FilterFirst(rows) ==
    LET filtered == validate_rows(remove_duplicate_reactions(rows))
        standardized ==
            [i \in 1..Len(filtered) |->
                [filtered[i] EXCEPT !.rxn = standardize_rxn_smiles(filtered[i].rxn)]]
    IN  remove_duplicate_reactions(standardized)

\* The chain before validate without the second deduplication.
unique_standardized_DedupOnce(rows) ==
    LET deduplicated == remove_duplicate_reactions(rows)
    IN  [i \in 1..Len(deduplicated) |->
            [deduplicated[i] EXCEPT !.rxn = standardize_rxn_smiles(deduplicated[i].rxn)]]

\* preprocess, lines 333-345: the rows that the first deduplication, the
\* reaction standardization and the second deduplication hand to validate.
unique_standardized(rows) ==
    LET deduplicated == remove_duplicate_reactions(rows)
        standardized ==
            [i \in 1..Len(deduplicated) |->
                [deduplicated[i] EXCEPT !.rxn = standardize_rxn_smiles(deduplicated[i].rxn)]]
    IN  remove_duplicate_reactions(standardized)

\* preprocess, lines 333-358: what the chain of stages yields on rows.
preprocess(rows) == validate_rows(unique_standardized(rows))

\* The counting of validate with one count for a dropped row, whatever the
\* number of its reasons.
count_reasons_OnePerRow(counter, row) ==
    LET result == validate_reasons(from_string(row.rxn))
    IN  IF result.valid THEN counter
        ELSE counter (+) SetToBag({result.reasons[1]})

\* validate, the body of internal() for one row reaching it: the counter
\* after the row. A row that is yielded leaves it as it is.
count_reasons(counter, row) ==
    LET result == validate_reasons(from_string(row.rxn))
    IN  IF result.valid THEN counter
        ELSE counter (+) SetToBag(Range(result.reasons))

\* The rows of the input file: "C.O>>CO", two other spellings of it,
\* "CO.CO>>OC" with a repeated reactant, "C.[J]>>CO" with a string that
\* does not parse and "C>>CO", which fails two checks, with classes "1" and
\* "2".
CsvRows ==
    [rxn : { <<"C", ".", "O", ">", ">", "C", "O">>,
             <<"O", ".", "C", ">", ">", "C", "O">>,
             <<"C", ">", "O", ">", "C", "O">>,
             <<"C", "O", ".", "C", "O", ">", ">", "O", "C">>,
             <<"C", ".">> \o M_J \o <<">", ">", "C", "O">>,
             <<"C", ">", ">", "C", "O">> },
     class : {"1", "2"}]

\* to_stream pulls one more row through the chain and writes what comes out.
\* The row is counted by validate when the two deduplications let it through.
PreprocessRow(row) ==
    /\ printed = <<>>
    /\ Len(csv_input) < MaxCsvRows
    /\ csv_input' = Append(csv_input, row)
    /\ csv_output' = preprocess(Append(csv_input, row))
    /\ LET before == unique_standardized(csv_input)
           after == unique_standardized(Append(csv_input, row))
       IN  error_counter' = IF Len(after) > Len(before)
                            THEN count_reasons(error_counter, after[Len(after)])
                            ELSE error_counter
    /\ printed' = printed
    /\ UNCHANGED <<splitVars, gs, stdConfig, stdCall, eqVars, filterVars, rsCall, viewCall,
                   dedupCall>>

\* The input file is at its end: to_stream returns and preprocess prints
\* the counter.
EndOfStream ==
    /\ printed = <<>>
    /\ printed' = <<error_counter>>
    /\ UNCHANGED <<splitVars, gs, stdConfig, stdCall, eqVars, filterVars, rsCall, viewCall,
                   dedupCall, csv_input, csv_output, error_counter>>

NextPreprocess ==
    \/ \E row \in CsvRows : PreprocessRow(row)
    \/ EndOfStream

SpecPreprocess == InitStages /\ [][NextPreprocess]_vars

\* C20: every row written is an input row with its reaction column replaced
\* by the standardized form of its reaction and its other column unchanged,
\* the written rows keep the order of the input, and the standardized
\* reaction of a written row fails no check of the filter; every other input
\* row is absent from the output.
C20_WrittenStandardizedOrDropped ==
    \E at \in [1..Len(csv_output) -> 1..Len(csv_input)] :
       /\ \A n \in 1..(Len(csv_output) - 1) : at[n] < at[n + 1]
       /\ \A n \in 1..Len(csv_output) :
             LET standardized ==
                     ReactionStandardizer_standardize(from_string(csv_input[at[n]].rxn))
             IN  /\ csv_output[n].class = csv_input[at[n]].class
                 /\ csv_output[n].rxn = to_string(standardized)
                 /\ validate_reasons(standardized).valid

\* "O.C>>CO" is written as "C.O>>CO" with its class, after "CO.CO>>OC" and
\* "C.[J]>>CO" were dropped.
C20_Witness ==
    /\ Len(csv_input) = 3
    /\ csv_input[3] = [rxn |-> <<"O", ".", "C", ">", ">", "C", "O">>, class |-> "2"]
    /\ csv_input[1].rxn = <<"C", "O", ".", "C", "O", ">", ">", "O", "C">>
    /\ csv_input[2].rxn = <<"C", ".">> \o M_J \o <<">", ">", "C", "O">>
    /\ csv_output = << [rxn |-> <<"C", ".", "O", ">", ">", "C", "O">>, class |-> "2"] >>

-----------------------------------------------------------------------------
(* Further claims on the stable splitter.                                   *)

\* C21: the shuffle only reorders the train file.  While the rows are read,
\* each output file holds, in input order, the rows that got its split; when
\* split_file has returned, the validation and test files still do, and the
\* train file holds each row that got TRAIN exactly as often as the input
\* does.  The rows of each file are thus fixed by the input, the hash seed,
\* the ratio and the index column, whatever the shuffle seed is.
C21_ShuffleOnlyReordersTrain ==
    LET pulled == SubSeq(input_rows, 1, pos)
        assigned(name) ==
            SelectSeq(pulled,
                      LAMBDA row :
                         get_split(StableSplitter(split_ratio, hash_seed),
                                   value_to_hash(index_column, row).value) = name)
    IN  splitPc \in {"rows", "done"}
        => /\ valid = assigned("VALIDATION")
           /\ test = assigned("TEST")
           /\ splitPc = "rows" => train = assigned("TRAIN")
           /\ Len(train) = Len(assigned("TRAIN"))
           /\ \A row \in Range(pulled) \cup Range(train) :
                 Count(train, row) = Count(assigned("TRAIN"), row)

\* split_file has returned with the two rows of the input in the train file,
\* in the other order.
C21_Witness ==
    /\ splitPc = "done"
    /\ Len(input_rows) = 2
    /\ train = <<input_rows[2], input_rows[1]>>

\* C22 as stated: with index_column "products" the value hashed for a row is
\* the part of its reaction string after the last ">", with "precursors" the
\* part before the first ">", for every reaction string, and no row makes
\* split_file fail.
C22_AsStated ==
    index_column \in {"products", "precursors"}
    => /\ splitPc # "error"
       /\ \A i \in 1..Len(input_rows) :
             LET rxn == input_rows[i].rxn
                 arrows == {k \in 1..Len(rxn) : rxn[k] = ">"}
                 first == CHOOSE k \in arrows : \A j \in arrows : k <= j
                 last == CHOOSE k \in arrows : \A j \in arrows : j <= k
                 hashed == value_to_hash(index_column, input_rows[i])
             IN  /\ hashed.ok
                 /\ hashed.value = IF index_column = "products"
                                   THEN SubSeq(rxn, last + 1, Len(rxn))
                                   ELSE SubSeq(rxn, 1, first - 1)

-----------------------------------------------------------------------------
(* Further claims on MoleculeStandardizer.standardize.                      *)

\* C23: a call on a string containing "~" raises ValueError, before any
\* parsing and any annotation lookup, whatever the annotations are and
\* whether or not the rest of the string parses; a string whose fragments are
\* separated by dots is standardized as one molecule.
C23_TildeIsValueError ==
    /\ ( stdCall # NoStdCall /\ "~" \in Range(stdCall.smiles) )
       => /\ stdCall.outcome = "ValueError"
          /\ stdCall.lookups = <<>>
          /\ stdCall.value = <<>>
    /\ ( /\ stdCall # NoStdCall
         /\ "." \in Range(stdCall.smiles)
         /\ "~" \notin Range(stdCall.smiles)
         /\ canonicalize_smiles(stdCall.smiles).ok
         /\ \A a \in Range(annotations) :
               ReplaceTildes(a.original_smiles) # CheckedString(stdCall.smiles) )
       => /\ stdCall.outcome = "ok"
          /\ stdCall.value = <<CheckedString(stdCall.smiles)>>
          /\ "." \in Range(stdCall.value[1])

\* "[J]~C", whose first fragment does not parse, raises ValueError on a
\* standardizer that has annotations.
C23_Witness ==
    /\ stdCall.smiles = M_J \o <<"~", "C">>
    /\ stdCall.outcome = "ValueError"
    /\ annotations # <<>>

-----------------------------------------------------------------------------
(* Further claims on MixedReactionFilter.                                   *)

\* C24: for a reaction whose molecules all parse, validate_reasons lists
\* different_atom_types exactly when some element of a product, other than
\* hydrogen and the three polymer placeholders Kr, Rn and Xe, is an element
\* of no reactant and of no agent.  The elements of the reactants and agents
\* are taken as they are, and no other element is exempted.
C24_DifferentAtomTypes ==
    LET rxn == filterCall.reaction
        elements(role) == UNION {Range(smiles_to_mol(rxn[role][i]).atoms) :
                                    i \in 1..Len(rxn[role])}
    IN  ( /\ filterCall.fn = "validate_reasons"
          /\ \A role \in 1..3 : \A i \in 1..Len(rxn[role]) : smiles_to_mol(rxn[role][i]).ok )
        => ( "different_atom_types" \in Range(filterCall.reasons)
             <=> \E e \in elements(3) :
                    /\ e \notin {"H", "Kr", "Rn", "Xe"}
                    /\ e \notin elements(1) \cup elements(2) )

\* The product "[Kr][Rn][Xe]" of the reactant "C" brings three elements the
\* reactant lacks, and the check does not fail.
C24_Witness ==
    /\ filterCall.fn = "validate_reasons"
    /\ filterCall.reaction = << <<M_C>>, <<>>, <<M_KrRnXe>> >>
    /\ "different_atom_types" \notin Range(filterCall.reasons)

\* C24 as stated: only hydrogen and two placeholder symbols are exempted,
\* whichever two of the three they are.
C24_AsStated ==
    LET rxn == filterCall.reaction
        elements(role) == UNION {Range(smiles_to_mol(rxn[role][i]).atoms) :
                                    i \in 1..Len(rxn[role])}
    IN  ( /\ filterCall.fn = "validate_reasons"
          /\ \A role \in 1..3 : \A i \in 1..Len(rxn[role]) : smiles_to_mol(rxn[role][i]).ok )
        => \E placeholders \in {{"Kr", "Rn"}, {"Kr", "Xe"}, {"Rn", "Xe"}} :
              ( "different_atom_types" \in Range(filterCall.reasons)
                <=> \E e \in elements(3) :
                       /\ e \notin {"H"} \cup placeholders
                       /\ e \notin elements(1) \cup elements(2) )

\* C25: in validate_reasons, for each role the token check fails exactly
\* when the number of tokens of the role's molecules joined with '.' exceeds
\* the role's maximum; with a maximum of 0 it passes exactly when the role
\* has no molecules. Nothing is decided before the tokenizer: it is called
\* once for every role, on the joined string, also for an empty role with a
\* maximum of 0 (on the empty string, which has no tokens).
C25_TokenChecks ==
    LET rxn == filterCall.reaction
        name == <<"max_reactant_tokens_exceeded", "max_agent_tokens_exceeded",
                  "max_product_tokens_exceeded">>
        maximum == <<filterConfig.max_reactants_tokens, filterConfig.max_agents_tokens,
                     filterConfig.max_products_tokens>>
    IN  filterCall.fn = "validate_reasons"
        => /\ \A role \in 1..3 :
                /\ name[role] \in Range(filterCall.reasons)
                   <=> Len(to_tokens(Join(rxn[role]))) > maximum[role]
                /\ maximum[role] = 0
                   => (name[role] \notin Range(filterCall.reasons) <=> rxn[role] = <<>>)
           /\ filterCall.tokenized = <<Join(rxn[1]), Join(rxn[2]), Join(rxn[3])>>

C25_Witness ==
    /\ filterCall.fn = "validate_reasons"
    /\ filterConfig.max_agents_tokens = 0
    /\ filterCall.reaction = <<<<M_C>>, <<>>, <<<<"C", "O">>>>>>
    /\ "max_agent_tokens_exceeded" \notin Range(filterCall.reasons)
    /\ filterCall.tokenized = <<M_C, <<>>, <<"C", "O">>>>

\* C25 as the specification states it: with a maximum of 0 the tokenizer is
\* not called for the role.
C25_AsStated ==
    ( /\ filterCall.fn = "validate_reasons"
      /\ filterConfig.max_agents_tokens = 0 )
    => /\ "max_agent_tokens_exceeded" \notin Range(filterCall.reasons)
          <=> filterCall.reaction[2] = <<>>
       /\ filterCall.tokenized
             = <<Join(filterCall.reaction[1]), Join(filterCall.reaction[3])>>

\* C26: in one is_valid call the callbacks run are a prefix of the ten
\* string-based checks in their listed order, then the conversion to toolkit
\* molecules, then the four toolkit-based checks in their listed order. No
\* callback runs after a failing one, the call goes on after every passing
\* one, the conversion happens at most once and only after the ten checks
\* have passed, and a toolkit-based check runs only after the conversion has
\* succeeded.
C26_LazyOrderedEvaluation ==
    LET rxn == filterCall.reaction
        run == filterCall.evaluated
        ten == <<"max_reactants_exceeded", "max_agents_exceeded", "max_products_exceeded",
                 "min_reactants_subceeded", "min_agents_subceeded",
                 "min_products_subceeded", "products_subset_of_reactants",
                 "max_reactant_tokens_exceeded", "max_agent_tokens_exceeded",
                 "max_product_tokens_exceeded">>
        four == <<"products_single_atoms", "formal_charge_exceeded",
                  "invalid_atom_type", "different_atom_types">>
        order == ten \o <<"from_reaction_equation">> \o four
        converted == from_reaction_equation(rxn)
        failed(i) == IF i <= 10 THEN smiles_based_checks(rxn)[i].failed
                     ELSE IF i = 11 THEN ~converted.ok
                     ELSE mol_based_checks(converted.mols)[i - 11].failed
    IN  filterCall.fn = "is_valid"
        => /\ Len(run) \in 1..15
           /\ run = SubSeq(order, 1, Len(run))
           /\ \A i \in 1..(Len(run) - 1) : ~failed(i)
           /\ Len(run) < 15 => failed(Len(run))
           /\ filterCall.valid <=> (Len(run) = 15 /\ ~failed(15))
           /\ Cardinality({i \in 1..Len(run) : run[i] = "from_reaction_equation"}) <= 1
           /\ Len(run) >= 11 => \A i \in 1..10 : ~smiles_based_checks(rxn)[i].failed
           /\ Len(run) >= 12 => converted.ok

C26_Witness ==
    /\ filterCall.fn = "is_valid"
    /\ ~filterCall.valid
    /\ Len(filterCall.evaluated) = 14
    /\ filterCall.evaluated[11] = "from_reaction_equation"
    /\ filterCall.evaluated[14] = "invalid_atom_type"

\* C27: the counter returned by validate is empty as long as no row has
\* been pulled through the stage. After any number of rows, and so once the
\* output is exhausted, the count of a reason is the number of rows handed
\* to validate and dropped by it whose validate_reasons list holds the
\* reason; rows that passed and rows removed by a deduplication count for
\* nothing. The table printed at the end is the counter at that moment.
C27_CounterFilledWhilePulled ==
    LET reached == unique_standardized(csv_input)
        reasons(i) == validate_reasons(from_string(reached[i].rxn))
        dropped == {i \in 1..Len(reached) : ~reasons(i).valid}
        named == BagToSet(error_counter)
                 \cup UNION {Range(reasons(i).reasons) : i \in 1..Len(reached)}
    IN  /\ csv_input = <<>> => error_counter = EmptyBag
        /\ \A reason \in named :
              CopiesIn(reason, error_counter)
                 = Cardinality({i \in dropped : reason \in Range(reasons(i).reasons)})
        /\ Len(csv_output) + Cardinality(dropped) = Len(reached)
        /\ printed # <<>> => printed = <<error_counter>>

C27_Witness ==
    /\ printed # <<>>
    /\ Len(csv_input) = 3
    /\ Len(csv_output) = 1
    /\ CopiesIn("min_reactants_subceeded", printed[1]) = 2
    /\ CopiesIn("different_atom_types", printed[1]) = 1

\* C28: when the annotations hold, for one dot-normalized original, a REJECT
\* record and an ACCEPT record with an updated value, in whatever order, a
\* call of standardize whose checks are made on that original raises
\* RejectedMolecule: it returns nothing and makes no replacement lookup.
C28_RejectionBeforeReplacement ==
    \A i, j \in 1..Len(annotations) :
       LET normalized(k) == [n \in 1..Len(annotations[k].original_smiles) |->
                               IF annotations[k].original_smiles[n] = "~" THEN "."
                               ELSE annotations[k].original_smiles[n]]
       IN  ( /\ annotations[i].decision = "REJECT"
             /\ annotations[j].decision = "ACCEPT"
             /\ annotations[j].has_updated
             /\ normalized(i) = normalized(j)
             /\ stdCall # NoStdCall
             /\ "~" \notin Range(stdCall.smiles)
             /\ canonicalize_smiles(remove_isotope_information(stdCall.smiles)).ok
             /\ CheckedString(stdCall.smiles) = normalized(i) )
           => /\ stdCall.outcome = "RejectedMolecule"
              /\ stdCall.value = <<>>
              /\ \A n \in 1..Len(stdCall.lookups) : stdCall.lookups[n].view # "replacement"

C28_Witness ==
    /\ Len(annotations) = 2
    /\ annotations[1].decision = "ACCEPT"
    /\ annotations[1].has_updated
    /\ annotations[2].decision = "REJECT"
    /\ annotations[1].original_smiles = annotations[2].original_smiles
    /\ stdCall.smiles = annotations[1].original_smiles
    /\ stdCall.outcome = "RejectedMolecule"

\* C29: the replacement lookup is the last step of a call that returns, and
\* the only lookup of a replacement: every lookup of the call is made on the
\* checked string of the input, none on a returned molecule; when a rule
\* exists for the checked string the list returned is the stored updated
\* value of the last such rule, split on its dots, whether or not its
\* molecules are rejected or have rules of their own.
C29_ReplacementIsLastAndSingle ==
    ( stdCall # NoStdCall /\ stdCall.outcome = "ok" )
    => LET checked == CheckedString(stdCall.smiles)
           rules == {i \in 1..Len(annotations) :
                       /\ annotations[i].decision = "ACCEPT"
                       /\ annotations[i].has_updated
                       /\ original_without_fragment_bond(annotations[i]) = checked}
           n == Len(stdCall.lookups)
       IN  /\ n >= 2
           /\ stdCall.lookups[n] = Lookup("replacement", checked)
           /\ \A k \in 1..(n - 1) : stdCall.lookups[k].view # "replacement"
           /\ \A k \in 1..n : stdCall.lookups[k].key = checked
           /\ rules = {} => stdCall.value = <<checked>>
           /\ rules # {}
              => stdCall.value
                    = multicomponent_smiles_to_list(
                          annotations[CHOOSE i \in rules : \A j \in rules : j <= i]
                              .updated_smiles)

C29_Witness ==
    /\ stdCall.smiles = M_CCCC
    /\ stdCall.outcome = "ok"
    /\ stdCall.value = <<M_CCC, <<"C", "C">>>>
    /\ standardize(stdCall.value[1]).outcome = "RejectedMolecule"
    /\ standardize(stdCall.value[2]).value = <<M_C>>

\* C30: no two rows written by preprocess have the same reaction value. Each
\* written row is an input row with its reaction standardized, the written
\* rows are in input order, and a written row is the first input row whose
\* reaction standardizes to its reaction value: of input rows with different
\* reaction strings and one standardized reaction only the first can be
\* written.
C30_OutputReactionsUnique ==
    /\ \A m, n \in 1..Len(csv_output) :
          m # n => csv_output[m].rxn # csv_output[n].rxn
    /\ \E at \in [1..Len(csv_output) -> 1..Len(csv_input)] :
          /\ \A n \in 1..(Len(csv_output) - 1) : at[n] < at[n + 1]
          /\ \A n \in 1..Len(csv_output) :
                /\ csv_output[n].class = csv_input[at[n]].class
                /\ csv_output[n].rxn = standardize_rxn_smiles(csv_input[at[n]].rxn)
                /\ \A k \in 1..(at[n] - 1) :
                      standardize_rxn_smiles(csv_input[k].rxn) # csv_output[n].rxn

C30_Witness ==
    /\ Len(csv_input) = 3
    /\ \A m, n \in 1..3 : m # n => csv_input[m].rxn # csv_input[n].rxn
    /\ \A m \in 1..3 :
          standardize_rxn_smiles(csv_input[m].rxn) = standardize_rxn_smiles(csv_input[1].rxn)
    /\ csv_input[1].class = "2"
    /\ csv_input[2].class = "1"
    /\ csv_output = << [rxn |-> standardize_rxn_smiles(csv_input[1].rxn), class |-> "2"] >>

====
